---------------------------- MODULE Spec2Model ----------------------------
(***************************************************************************)
(* The incremental symbol/scope index of DeanComplete and its scope-aware  *)
(* definition resolver: SymbolDatabase (src/src/database), ScopeManager    *)
(* (src/src/scope) and the handlers of DeanCompleteExtension that drive    *)
(* them (file watchers, analyzeFile, provideDefinition).                   *)
(*                                                                         *)
(* JavaScript strings are modelled as sequences of one-character strings,  *)
(* so that endsWith / startsWith / includes / lastIndexOf work on          *)
(* characters exactly as in the source ("BC" ends with "C").               *)
(*                                                                         *)
(* A Scope object graph (children arrays, parent back-references) is       *)
(* modelled as an arena: a sequence of nodes in creation order whose       *)
(* children and parent fields hold arena indices (0 = undefined).  A       *)
(* reference to a Scope is a pair [tree, idx]: the arena it lives in and   *)
(* its index, which is everything reachable from the object.               *)
(***************************************************************************)
EXTENDS Integers, Sequences, FiniteSets, TLC

VARIABLES
    symbols,        \* SymbolDatabase.symbols      : file -> Symbol[]
    symbolIndex,    \* SymbolDatabase.symbolIndex  : name -> Symbol[]
    fileScopes,     \* ScopeManager.fileScopes     : file -> Scope[] (a tree)
    globalScopes,   \* ScopeManager.globalScopes   : name -> Scope reference
    handlers,       \* the asynchronous handlers in flight, one record per slot
    lastOp,         \* history: the last handler step that wrote to the index
                    \* (had: the file had an entry before it)
    call            \* a function of the program called on its own: its
                    \* arguments and the value it returned

vars == <<symbols, symbolIndex, fileScopes, globalScopes, handlers, lastOp, call>>

(***************************************************************************)
(* Bounds of the model.                                                    *)
(***************************************************************************)
MaxLine == 2

Lines == 0..MaxLine

(***************************************************************************)
(* Strings.                                                                *)
(***************************************************************************)
Empty == <<>>

Sep == <<":", ":">>

Last(s) == s[Len(s)]

StartsWith(s, p) ==
    /\ Len(p) <= Len(s)
    /\ SubSeq(s, 1, Len(p)) = p

EndsWith(s, p) ==
    /\ Len(p) <= Len(s)
    /\ SubSeq(s, Len(s) - Len(p) + 1, Len(s)) = p

\* String.prototype.lastIndexOf, as a 1-based start position; 0 stands for -1.
LastIndexOf(s, p) ==
    LET hits == {i \in 1..(Len(s) - Len(p) + 1) : SubSeq(s, i, i + Len(p) - 1) = p}
    IN  IF hits = {} THEN 0 ELSE CHOOSE i \in hits : \A j \in hits : j <= i

Includes(s, p) == LastIndexOf(s, p) # 0

RECURSIVE Join(_, _)
Join(parts, sep) ==
    IF Len(parts) = 0 THEN Empty
    ELSE IF Len(parts) = 1 THEN parts[1]
    ELSE parts[1] \o sep \o Join(Tail(parts), sep)

(***************************************************************************)
(* Maps (JavaScript Map): functions whose domain is the set of keys.       *)
(***************************************************************************)
EmptyMap == [k \in {} |-> 0]

MapHas(m, k) == k \in DOMAIN m

MapSet(m, k, v) == [x \in DOMAIN m \cup {k} |-> IF x = k THEN v ELSE m[x]]

MapDelete(m, k) == [x \in DOMAIN m \ {k} |-> m[x]]

(***************************************************************************)
(* Symbol records (interface Symbol).  type, signature and references are  *)
(* never read by the operations modelled here and are left out.            *)
(***************************************************************************)
Sym(name, kind, file, line, column, scope, isDef, isDecl) ==
    [name |-> name, kind |-> kind, file |-> file, line |-> line,
     column |-> column, scope |-> scope,
     isDefinition |-> isDef, isDeclaration |-> isDecl]

(***************************************************************************)
(* SymbolDatabase.  A database value is [symbols, symbolIndex].            *)
(***************************************************************************)
\* A slip: the predicate compares the line only.
FindIndexBadNoFile(bucket, symbol) ==
    LET hits == {i \in 1..Len(bucket) : bucket[i].line = symbol.line}
    IN  IF hits = {} THEN 0 ELSE CHOOSE i \in hits : \A j \in hits : i <= j

\* Array.prototype.findIndex with the predicate of removeFile; 0 stands for -1.
FindIndex(bucket, symbol) ==
    LET hits == {i \in 1..Len(bucket) :
                    bucket[i].file = symbol.file /\ bucket[i].line = symbol.line}
    IN  IF hits = {} THEN 0 ELSE CHOOSE i \in hits : \A j \in hits : i <= j

\* A slip: splice(index, 0) removes nothing.
SpliceNothing(seq, i) == seq

Splice(seq, i) == SubSeq(seq, 1, i - 1) \o SubSeq(seq, i + 1, Len(seq))

\* The loop of removeFile over oldSymbols, from position i on.
\* A slip: removeFile without the delete of a bucket that became empty.
RECURSIVE RemoveFromIndexKeepsEmpty(_, _, _)
RemoveFromIndexKeepsEmpty(index, oldSymbols, i) ==
    IF i > Len(oldSymbols) THEN index
    ELSE LET symbol == oldSymbols[i] IN
         IF ~MapHas(index, symbol.name)
         THEN RemoveFromIndexKeepsEmpty(index, oldSymbols, i + 1)
         ELSE LET symbolsWithName == index[symbol.name]
                  k == FindIndex(symbolsWithName, symbol)
              IN  IF k = 0
                  THEN RemoveFromIndexKeepsEmpty(index, oldSymbols, i + 1)
                  ELSE RemoveFromIndexKeepsEmpty(
                           MapSet(index, symbol.name, Splice(symbolsWithName, k)),
                           oldSymbols, i + 1)

RECURSIVE RemoveFromIndex(_, _, _)
RemoveFromIndex(index, oldSymbols, i) ==
    IF i > Len(oldSymbols) THEN index
    ELSE LET symbol == oldSymbols[i] IN
         IF ~MapHas(index, symbol.name)
         THEN RemoveFromIndex(index, oldSymbols, i + 1)
         ELSE LET symbolsWithName == index[symbol.name]
                  k == FindIndex(symbolsWithName, symbol)
              IN  IF k = 0
                  THEN RemoveFromIndex(index, oldSymbols, i + 1)
                  ELSE LET rest == Splice(symbolsWithName, k) IN
                       IF Len(rest) = 0
                       THEN RemoveFromIndex(MapDelete(index, symbol.name),
                                            oldSymbols, i + 1)
                       ELSE RemoveFromIndex(MapSet(index, symbol.name, rest),
                                            oldSymbols, i + 1)

\* A slip: removeFile drops the buckets of the file's names as a whole.
DbRemoveFileDropsBuckets(db, filePath) ==
    IF MapHas(db.symbols, filePath)
    THEN [symbols     |-> MapDelete(db.symbols, filePath),
          symbolIndex |-> [n \in DOMAIN db.symbolIndex \
                               {db.symbols[filePath][i].name :
                                    i \in 1..Len(db.symbols[filePath])}
                           |-> db.symbolIndex[n]]]
    ELSE db

DbRemoveFile(db, filePath) ==
    IF MapHas(db.symbols, filePath)
    THEN [symbols     |-> MapDelete(db.symbols, filePath),
          symbolIndex |-> RemoveFromIndex(db.symbolIndex, db.symbols[filePath], 1)]
    ELSE db

\* The indexing loop of updateFile over the new symbols, from position i on.
\* A slip: the new record is put at the front of its bucket.
RECURSIVE AddToIndexAtFront(_, _, _)
AddToIndexAtFront(index, newSymbols, i) ==
    IF i > Len(newSymbols) THEN index
    ELSE LET symbol == newSymbols[i]
             bucket == IF MapHas(index, symbol.name) THEN index[symbol.name] ELSE <<>>
         IN  AddToIndexAtFront(MapSet(index, symbol.name, <<symbol>> \o bucket),
                               newSymbols, i + 1)

RECURSIVE AddToIndex(_, _, _)
AddToIndex(index, newSymbols, i) ==
    IF i > Len(newSymbols) THEN index
    ELSE LET symbol == newSymbols[i]
             bucket == IF MapHas(index, symbol.name) THEN index[symbol.name] ELSE <<>>
         IN  AddToIndex(MapSet(index, symbol.name, Append(bucket, symbol)),
                        newSymbols, i + 1)

\* A slip: updateFile without the removeFile call it starts with.
DbUpdateFileNoRemove(db, filePath, newSymbols) ==
    [symbols     |-> MapSet(db.symbols, filePath, newSymbols),
     symbolIndex |-> AddToIndex(db.symbolIndex, newSymbols, 1)]

\* A slip: updateFile starts the file table afresh.
DbUpdateFileResetsTable(db, filePath, newSymbols) ==
    LET removed == DbRemoveFile(db, filePath)
    IN  [symbols     |-> MapSet(EmptyMap, filePath, newSymbols),
         symbolIndex |-> AddToIndex(removed.symbolIndex, newSymbols, 1)]

DbUpdateFile(db, filePath, newSymbols) ==
    LET removed == DbRemoveFile(db, filePath)
    IN  [symbols     |-> MapSet(removed.symbols, filePath, newSymbols),
         symbolIndex |-> AddToIndex(removed.symbolIndex, newSymbols, 1)]

\* A slip: byKind.set(symbol.kind, 1), the count is not carried on.
RECURSIVE CountKindsOnce(_, _, _)
CountKindsOnce(byKind, syms, i) ==
    IF i > Len(syms) THEN byKind
    ELSE CountKindsOnce(MapSet(byKind, syms[i].kind, 1), syms, i + 1)

\* The inner loop of getSymbolStatistics over the symbols of one file.
RECURSIVE CountKinds(_, _, _)
CountKinds(byKind, syms, i) ==
    IF i > Len(syms) THEN byKind
    ELSE CountKinds(MapSet(byKind, syms[i].kind,
                           (IF MapHas(byKind, syms[i].kind)
                            THEN byKind[syms[i].kind] ELSE 0) + 1),
                    syms, i + 1)

\* The outer loop of getSymbolStatistics over the entries not yet visited.
RECURSIVE StatisticsLoop(_, _, _)
StatisticsLoop(db, files, stats) ==
    IF files = {} THEN stats
    ELSE LET filePath == CHOOSE f \in files : TRUE
         IN  StatisticsLoop(db, files \ {filePath},
                 [total  |-> stats.total + Len(db.symbols[filePath]),
                  byKind |-> CountKinds(stats.byKind, db.symbols[filePath], 1),
                  byFile |-> MapSet(stats.byFile, filePath,
                                    Len(db.symbols[filePath]))])

GetSymbolStatistics(db) ==
    StatisticsLoop(db, DOMAIN db.symbols,
                   [total |-> 0, byKind |-> EmptyMap, byFile |-> EmptyMap])

FindSymbolsByName(db, name) ==
    IF MapHas(db.symbolIndex, name) THEN db.symbolIndex[name] ELSE <<>>

FindDefinitions(db, name) ==
    SelectSeq(FindSymbolsByName(db, name), LAMBDA s : s.isDefinition)

FindDeclarations(db, name) ==
    SelectSeq(FindSymbolsByName(db, name), LAMBDA s : s.isDeclaration)

GetSymbolsInFile(db, filePath) ==
    IF MapHas(db.symbols, filePath) THEN db.symbols[filePath] ELSE <<>>

(***************************************************************************)
(* ScopeManager.  A tree value is [nodes, roots]: the arena of the Scope   *)
(* objects one buildScopeTree call created and the indices of the ones it  *)
(* returned (the root list).  A manager value is [fileScopes,              *)
(* globalScopes].                                                          *)
(***************************************************************************)
ScopeKinds == {"namespace", "class", "struct", "function"}

IsScopeSymbol(symbol) == symbol.kind \in ScopeKinds

\* A slip: a new scope is taken to reach the line after the one it starts on.
CreateScopeOpenEnded(symbol) ==
    [name |-> symbol.name, type |-> symbol.kind,
     startLine |-> symbol.line, endLine |-> symbol.line + 1,
     symbols |-> <<>>, children |-> <<>>, parent |-> 0]

CreateScope(symbol) ==
    [name |-> symbol.name, type |-> symbol.kind,
     startLine |-> symbol.line, endLine |-> symbol.line,
     symbols |-> <<>>, children |-> <<>>, parent |-> 0]

\* [...symbols].sort((a, b) => a.line - b.line): a stable sort by line.
RECURSIVE InsertByLine(_, _)
InsertByLine(sorted, s) ==
    IF sorted = <<>> THEN <<s>>
    ELSE IF Head(sorted).line <= s.line
         THEN <<Head(sorted)>> \o InsertByLine(Tail(sorted), s)
         ELSE <<s>> \o sorted

\* A slip: the symbols are taken in the order given, without the sort.
SortByLineNone(syms) == syms

RECURSIVE SortByLine(_)
SortByLine(syms) ==
    IF syms = <<>> THEN <<>>
    ELSE InsertByLine(SortByLine(SubSeq(syms, 1, Len(syms) - 1)), Last(syms))

\* while (stack.length > 0 && stack[top].endLine < symbol.line) stack.pop()
RECURSIVE PopClosed(_, _, _)
PopClosed(nodes, stack, line) ==
    IF Len(stack) > 0 /\ nodes[Last(stack)].endLine < line
    THEN PopClosed(nodes, SubSeq(stack, 1, Len(stack) - 1), line)
    ELSE stack

\* A slip: the symbol is added to the scope that is current before the scope
\* the symbol opens is pushed.
BuildStepOwnerFirst(st, symbol) ==
    LET stack1 == IF IsScopeSymbol(symbol)
                  THEN PopClosed(st.nodes, st.stack, symbol.line) ELSE st.stack
        owned  == IF Len(stack1) > 0
                  THEN [st EXCEPT !.nodes[Last(stack1)].symbols = Append(@, symbol),
                                  !.stack = stack1]
                  ELSE [st EXCEPT !.stack = stack1]
        id     == Len(st.nodes) + 1
    IN  IF ~IsScopeSymbol(symbol) THEN owned
        ELSE IF Len(stack1) > 0
             THEN [nodes |-> Append(
                        [owned.nodes EXCEPT ![Last(stack1)].children = Append(@, id)],
                        [CreateScope(symbol) EXCEPT !.parent = Last(stack1)]),
                   roots |-> st.roots,
                   stack |-> Append(stack1, id)]
             ELSE [nodes |-> Append(st.nodes, CreateScope(symbol)),
                   roots |-> Append(st.roots, id),
                   stack |-> Append(stack1, id)]

\* A slip: scopes.push(scope) outside the else, a child is a root as well.
BuildStepChildAlsoRoot(st, symbol) ==
    LET opened ==
            IF IsScopeSymbol(symbol)
            THEN LET stack1 == PopClosed(st.nodes, st.stack, symbol.line)
                     id     == Len(st.nodes) + 1
                 IN  IF Len(stack1) > 0
                     THEN [nodes |-> Append(
                                [st.nodes EXCEPT ![Last(stack1)].children = Append(@, id)],
                                [CreateScope(symbol) EXCEPT !.parent = Last(stack1)]),
                           roots |-> Append(st.roots, id),
                           stack |-> Append(stack1, id)]
                     ELSE [nodes |-> Append(st.nodes, CreateScope(symbol)),
                           roots |-> Append(st.roots, id),
                           stack |-> Append(stack1, id)]
            ELSE st
    IN  IF Len(opened.stack) > 0
        THEN [opened EXCEPT !.nodes[Last(opened.stack)].symbols = Append(@, symbol)]
        ELSE opened

\* One iteration of the loop of buildScopeTree; st is [nodes, roots, stack].
BuildStep(st, symbol) ==
    LET opened ==
            IF IsScopeSymbol(symbol)
            THEN LET stack1 == PopClosed(st.nodes, st.stack, symbol.line)
                     id     == Len(st.nodes) + 1
                 IN  IF Len(stack1) > 0
                     THEN [nodes |-> Append(
                                [st.nodes EXCEPT ![Last(stack1)].children = Append(@, id)],
                                [CreateScope(symbol) EXCEPT !.parent = Last(stack1)]),
                           roots |-> st.roots,
                           stack |-> Append(stack1, id)]
                     ELSE [nodes |-> Append(st.nodes, CreateScope(symbol)),
                           roots |-> Append(st.roots, id),
                           stack |-> Append(stack1, id)]
            ELSE st
    IN  IF Len(opened.stack) > 0
        THEN [opened EXCEPT !.nodes[Last(opened.stack)].symbols = Append(@, symbol)]
        ELSE opened

RECURSIVE BuildLoop(_, _, _)
BuildLoop(st, sortedSymbols, i) ==
    IF i > Len(sortedSymbols) THEN st
    ELSE BuildLoop(BuildStep(st, sortedSymbols[i]), sortedSymbols, i + 1)

\* A slip: the first of the selected symbols is taken instead of the last.
EndLineOfFirst(scope) ==
    LET scopeSymbols == SelectSeq(scope.symbols,
            LAMBDA s : s.line >= scope.startLine /\ s.kind # scope.type)
    IN  IF Len(scopeSymbols) > 0 THEN Head(scopeSymbols).line ELSE scope.endLine

\* A slip: the scope is made to end on the line before its last symbol.
EndLineOfLineBefore(scope) ==
    LET scopeSymbols == SelectSeq(scope.symbols,
            LAMBDA s : s.line >= scope.startLine /\ s.kind # scope.type)
    IN  IF Len(scopeSymbols) > 0 THEN Last(scopeSymbols).line - 1 ELSE scope.endLine

\* The end line updateScopeEndLines gives one scope.
EndLineOf(scope) ==
    LET scopeSymbols == SelectSeq(scope.symbols,
            LAMBDA s : s.line >= scope.startLine /\ s.kind # scope.type)
    IN  IF Len(scopeSymbols) > 0 THEN Last(scopeSymbols).line ELSE scope.endLine

\* updateScopeEndLines(scopes, symbols): the scopes of list ids, then their children.
RECURSIVE UpdateScopeEndLines(_, _)
UpdateScopeEndLines(nodes, ids) ==
    IF ids = <<>> THEN nodes
    ELSE LET i  == Head(ids)
             n1 == [nodes EXCEPT ![i].endLine = EndLineOf(nodes[i])]
             n2 == UpdateScopeEndLines(n1, n1[i].children)
         IN  UpdateScopeEndLines(n2, Tail(ids))

\* The tree buildScopeTree builds (before it stores and indexes it).
ScopeTreeOf(syms) ==
    LET st == BuildLoop([nodes |-> <<>>, roots |-> <<>>, stack |-> <<>>],
                        SortByLine(syms), 1)
    IN  [nodes |-> UpdateScopeEndLines(st.nodes, st.roots), roots |-> st.roots]

\* A slip: updateGlobalScopes without the recursion into the children.
RECURSIVE UpdateGlobalScopesRootsOnly(_, _, _)
UpdateGlobalScopesRootsOnly(global, tree, ids) ==
    IF ids = <<>> THEN global
    ELSE UpdateGlobalScopesRootsOnly(
             MapSet(global, tree.nodes[Head(ids)].name, [tree |-> tree, idx |-> Head(ids)]),
             tree, Tail(ids))

\* A slip: the children are registered before the scope itself.
RECURSIVE UpdateGlobalScopesChildrenFirst(_, _, _)
UpdateGlobalScopesChildrenFirst(global, tree, ids) ==
    IF ids = <<>> THEN global
    ELSE LET i  == Head(ids)
             g1 == UpdateGlobalScopesChildrenFirst(global, tree, tree.nodes[i].children)
             g2 == MapSet(g1, tree.nodes[i].name, [tree |-> tree, idx |-> i])
         IN  UpdateGlobalScopesChildrenFirst(g2, tree, Tail(ids))

\* updateGlobalScopes(scopes): each scope, then its children (pre-order).
RECURSIVE UpdateGlobalScopes(_, _, _)
UpdateGlobalScopes(global, tree, ids) ==
    IF ids = <<>> THEN global
    ELSE LET i  == Head(ids)
             g1 == MapSet(global, tree.nodes[i].name, [tree |-> tree, idx |-> i])
             g2 == UpdateGlobalScopes(g1, tree, tree.nodes[i].children)
         IN  UpdateGlobalScopes(g2, tree, Tail(ids))

\* A slip: removeScopeFromGlobalIndex without the loop over the children.
RECURSIVE RemoveScopesFromGlobalIndexRootsOnly(_, _, _)
RemoveScopesFromGlobalIndexRootsOnly(global, tree, ids) ==
    IF ids = <<>> THEN global
    ELSE RemoveScopesFromGlobalIndexRootsOnly(
             MapDelete(global, tree.nodes[Head(ids)].name), tree, Tail(ids))

\* removeScopeFromGlobalIndex applied to each scope of list ids in turn.
RECURSIVE RemoveScopesFromGlobalIndex(_, _, _)
RemoveScopesFromGlobalIndex(global, tree, ids) ==
    IF ids = <<>> THEN global
    ELSE LET i  == Head(ids)
             g1 == MapDelete(global, tree.nodes[i].name)
             g2 == RemoveScopesFromGlobalIndex(g1, tree, tree.nodes[i].children)
         IN  RemoveScopesFromGlobalIndex(g2, tree, Tail(ids))

SmUpdateFile(sm, filePath, tree) ==
    [fileScopes   |-> MapSet(sm.fileScopes, filePath, tree),
     globalScopes |-> UpdateGlobalScopes(sm.globalScopes, tree, tree.roots)]

\* buildScopeTree(symbols, filePath): builds the tree, stores it, indexes it.
SmBuildScopeTree(sm, syms, filePath) ==
    SmUpdateFile(sm, filePath, ScopeTreeOf(syms))

\* A slip: removeFile without fileScopes.delete(filePath).
SmRemoveFileKeepsTree(sm, filePath) ==
    IF MapHas(sm.fileScopes, filePath)
    THEN [fileScopes   |-> sm.fileScopes,
          globalScopes |-> RemoveScopesFromGlobalIndex(sm.globalScopes,
                               sm.fileScopes[filePath], sm.fileScopes[filePath].roots)]
    ELSE sm

SmRemoveFile(sm, filePath) ==
    IF MapHas(sm.fileScopes, filePath)
    THEN [fileScopes   |-> MapDelete(sm.fileScopes, filePath),
          globalScopes |-> RemoveScopesFromGlobalIndex(sm.globalScopes,
                               sm.fileScopes[filePath], sm.fileScopes[filePath].roots)]
    ELSE sm

\* A slip: the scopes below the roots are counted by type as well.
RECURSIVE CountTypesAllDepths(_, _, _)
CountTypesAllDepths(byType, tree, ids) ==
    IF ids = <<>> THEN byType
    ELSE LET type  == tree.nodes[Head(ids)].type
             count == IF MapHas(byType, type) THEN byType[type] ELSE 0
         IN  CountTypesAllDepths(
                 CountTypesAllDepths(MapSet(byType, type, count + 1), tree,
                                     tree.nodes[Head(ids)].children),
                 tree, Tail(ids))

\* The inner loop of getScopeStatistics over the scopes of list ids.
RECURSIVE CountTypes(_, _, _)
CountTypes(byType, tree, ids) ==
    IF ids = <<>> THEN byType
    ELSE LET type  == tree.nodes[Head(ids)].type
             count == IF MapHas(byType, type) THEN byType[type] ELSE 0
         IN  CountTypes(MapSet(byType, type, count + 1), tree, Tail(ids))

\* The outer loop of getScopeStatistics over the entries not yet visited; the
\* Scope[] stored for a file is the list of its roots.
RECURSIVE ScopeStatisticsLoop(_, _, _)
ScopeStatisticsLoop(sm, files, stats) ==
    IF files = {} THEN stats
    ELSE LET filePath == CHOOSE f \in files : TRUE
             scopes   == sm.fileScopes[filePath].roots
         IN  ScopeStatisticsLoop(sm, files \ {filePath},
                 [total  |-> stats.total + Len(scopes),
                  byType |-> CountTypes(stats.byType, sm.fileScopes[filePath], scopes),
                  byFile |-> MapSet(stats.byFile, filePath, Len(scopes))])

GetScopeStatistics(sm) ==
    ScopeStatisticsLoop(sm, DOMAIN sm.fileScopes,
                        [total |-> 0, byType |-> EmptyMap, byFile |-> EmptyMap])

\* findScopeAtLine(scopes, line): an arena index, 0 for undefined.
RECURSIVE FindScopeAtLine(_, _, _)
FindScopeAtLine(tree, ids, line) ==
    IF ids = <<>> THEN 0
    ELSE LET scope == tree.nodes[Head(ids)] IN
         IF line >= scope.startLine /\ line <= scope.endLine
         THEN LET childScope == FindScopeAtLine(tree, scope.children, line)
              IN  IF childScope # 0 THEN childScope ELSE Head(ids)
         ELSE FindScopeAtLine(tree, Tail(ids), line)

FindScopeAtPosition(sm, filePath, line) ==
    IF ~MapHas(sm.fileScopes, filePath) THEN 0
    ELSE FindScopeAtLine(sm.fileScopes[filePath], sm.fileScopes[filePath].roots, line)

\* A slip: push instead of unshift, the chain comes out leaf first.
RECURSIVE GetScopeHierarchyLeafFirst(_, _)
GetScopeHierarchyLeafFirst(tree, idx) ==
    IF tree.nodes[idx].parent = 0 THEN <<idx>>
    ELSE <<idx>> \o GetScopeHierarchyLeafFirst(tree, tree.nodes[idx].parent)

\* getScopeHierarchy(scope): the arena indices from the root down to idx.
RECURSIVE GetScopeHierarchy(_, _)
GetScopeHierarchy(tree, idx) ==
    IF tree.nodes[idx].parent = 0 THEN <<idx>>
    ELSE Append(GetScopeHierarchy(tree, tree.nodes[idx].parent), idx)

HierarchyNames(tree, idx) ==
    LET h == GetScopeHierarchy(tree, idx)
    IN  [k \in 1..Len(h) |-> tree.nodes[h[k]].name]

GetScopePath(tree, idx) == Join(HierarchyNames(tree, idx), Sep)

\* The value standing for undefined where a Scope reference is expected.
NoScope == [tree |-> [nodes |-> <<>>, roots |-> <<>>], idx |-> 0]

FindScopeByName(sm, name) ==
    IF MapHas(sm.globalScopes, name) THEN sm.globalScopes[name] ELSE NoScope

(***************************************************************************)
(* The resolver: provideDefinition and its helpers.                        *)
(***************************************************************************)
MaxResults == 5

GetUnqualifiedName(name) ==
    LET idx == LastIndexOf(name, Sep)
    IN  IF idx = 0 THEN name ELSE SubSeq(name, idx + 2, Len(name))

\* A slip: getCandidateScopePaths without the global namespace as fallback.
GetCandidateScopePathsNoFallback(tree, idx) ==
    IF idx = 0 THEN <<Empty>>
    ELSE LET names == HierarchyNames(tree, idx)
         IN  [k \in 1..Len(names) |->
                 Join(SubSeq(names, 1, Len(names) - k + 1), Sep)]

\* getCandidateScopePaths(scope), the scope given as tree and arena index.
GetCandidateScopePaths(tree, idx) ==
    IF idx = 0 THEN <<Empty>>
    ELSE LET names == HierarchyNames(tree, idx)
         IN  [k \in 1..Len(names) |->
                 Join(SubSeq(names, 1, Len(names) - k + 1), Sep)] \o <<Empty>>

SeqHas(seq, x) == \E i \in 1..Len(seq) : seq[i] = x

\* A slip: scoreDefinition without the bonus for the current file.
ScoreDefinitionNoLocality(def, currentFile, candidateScopes, word, targetName) ==
    LET exactScore  == IF SeqHas(candidateScopes, def.scope) THEN 20 ELSE 0
        suffixScore == IF \E i \in 1..Len(candidateScopes) :
                              /\ candidateScopes[i] # Empty
                              /\ EndsWith(def.scope, candidateScopes[i])
                       THEN 12 ELSE 0
        qualifier   == SubSeq(word, 1, LastIndexOf(word, Sep) - 1)
        qualScore   == IF Includes(word, Sep)
                       THEN (IF StartsWith(def.name, qualifier \o Sep) THEN 15 ELSE 0)
                          + (IF EndsWith(def.scope, qualifier) THEN 10 ELSE 0)
                       ELSE 0
        nameScore   == (IF def.name = targetName THEN 2 ELSE 0)
                     + (IF EndsWith(def.name, Sep \o targetName) THEN 1 ELSE 0)
        defScore    == IF def.isDefinition /\ ~def.isDeclaration THEN 3 ELSE 0
    IN  exactScore + suffixScore + qualScore + nameScore + defScore

\* A slip: the suffix loop without its break, +12 for every entry that matches.
ScoreDefinitionSuffixEach(def, currentFile, candidateScopes, word, targetName) ==
    LET fileScore   == IF def.file = currentFile THEN 5 ELSE 0
        exactScore  == IF SeqHas(candidateScopes, def.scope) THEN 20 ELSE 0
        suffixScore == 12 * Cardinality({ i \in 1..Len(candidateScopes) :
                              /\ candidateScopes[i] # Empty
                              /\ EndsWith(def.scope, candidateScopes[i]) })
        qualifier   == SubSeq(word, 1, LastIndexOf(word, Sep) - 1)
        qualScore   == IF Includes(word, Sep)
                       THEN (IF StartsWith(def.name, qualifier \o Sep) THEN 15 ELSE 0)
                          + (IF EndsWith(def.scope, qualifier) THEN 10 ELSE 0)
                       ELSE 0
        nameScore   == (IF def.name = targetName THEN 2 ELSE 0)
                     + (IF EndsWith(def.name, Sep \o targetName) THEN 1 ELSE 0)
        defScore    == IF def.isDefinition /\ ~def.isDeclaration THEN 3 ELSE 0
    IN  fileScore + exactScore + suffixScore + qualScore + nameScore + defScore

ScoreDefinition(def, currentFile, candidateScopes, word, targetName) ==
    LET fileScore   == IF def.file = currentFile THEN 5 ELSE 0
        exactScore  == IF SeqHas(candidateScopes, def.scope) THEN 20 ELSE 0
        suffixScore == IF \E i \in 1..Len(candidateScopes) :
                              /\ candidateScopes[i] # Empty
                              /\ EndsWith(def.scope, candidateScopes[i])
                       THEN 12 ELSE 0
        qualifier   == SubSeq(word, 1, LastIndexOf(word, Sep) - 1)
        qualScore   == IF Includes(word, Sep)
                       THEN (IF StartsWith(def.name, qualifier \o Sep) THEN 15 ELSE 0)
                          + (IF EndsWith(def.scope, qualifier) THEN 10 ELSE 0)
                       ELSE 0
        nameScore   == (IF def.name = targetName THEN 2 ELSE 0)
                     + (IF EndsWith(def.name, Sep \o targetName) THEN 1 ELSE 0)
        defScore    == IF def.isDefinition /\ ~def.isDeclaration THEN 3 ELSE 0
    IN  fileScore + exactScore + suffixScore + qualScore + nameScore + defScore

\* A slip: the comparator a.score - b.score sorts the lowest score first.
RECURSIVE InsertByScoreAscending(_, _)
InsertByScoreAscending(sorted, e) ==
    IF sorted = <<>> THEN <<e>>
    ELSE IF Head(sorted).score <= e.score
         THEN <<Head(sorted)>> \o InsertByScoreAscending(Tail(sorted), e)
         ELSE <<e>> \o sorted

\* .sort((a, b) => b.score - a.score): a stable sort, highest score first.
RECURSIVE InsertByScore(_, _)
InsertByScore(sorted, e) ==
    IF sorted = <<>> THEN <<e>>
    ELSE IF Head(sorted).score >= e.score
         THEN <<Head(sorted)>> \o InsertByScore(Tail(sorted), e)
         ELSE <<e>> \o sorted

RECURSIVE SortByScore(_)
SortByScore(scored) ==
    IF scored = <<>> THEN <<>>
    ELSE InsertByScore(SortByScore(SubSeq(scored, 1, Len(scored) - 1)), Last(scored))

\* [...new Set([...allDefs, ...fqDefs])]: a Set of objects removes a second
\* occurrence of the same object.  Objects are told apart by the bucket and the
\* position they come from; equal records of different origin are both kept.
RECURSIVE DedupByOrigin(_)
DedupByOrigin(tagged) ==
    IF tagged = <<>> THEN <<>>
    ELSE LET init == DedupByOrigin(SubSeq(tagged, 1, Len(tagged) - 1))
             x    == Last(tagged)
         IN  IF \E i \in 1..Len(init) : init[i].origin = x.origin
             THEN init ELSE Append(init, x)

\* The records of bucket name, each with its origin <<name, position>>.
TaggedBucket(db, name) ==
    LET b == FindSymbolsByName(db, name)
    IN  [i \in 1..Len(b) |-> [def |-> b[i], origin |-> <<name, i>>]]

\* A slip: the buckets are taken whole, as findSymbolsByName returns them.
CandidateSetNoFilter(db, word) ==
    LET targetName == GetUnqualifiedName(word)
        allDefs == TaggedBucket(db, targetName)
        fqDefs  == IF Includes(word, Sep) THEN TaggedBucket(db, word) ELSE <<>>
        defs    == DedupByOrigin(allDefs \o fqDefs)
    IN  [i \in 1..Len(defs) |-> defs[i].def]

CandidateSet(db, word) ==
    LET targetName == GetUnqualifiedName(word)
        allDefs == SelectSeq(TaggedBucket(db, targetName), LAMBDA e : e.def.isDefinition)
        fqDefs  == IF Includes(word, Sep)
                   THEN SelectSeq(TaggedBucket(db, word), LAMBDA e : e.def.isDefinition)
                   ELSE <<>>
        defs    == DedupByOrigin(allDefs \o fqDefs)
    IN  [i \in 1..Len(defs) |-> defs[i].def]

\* The candidates with their scores, in candidate order (pos: the place in the
\* candidate list, which tells equal records apart).
ScoredCandidates(db, sm, fileName, word, line) ==
    LET targetName == GetUnqualifiedName(word)
        currentScope == FindScopeAtPosition(sm, fileName, line)
        candidateScopes ==
            IF currentScope = 0 THEN GetCandidateScopePaths(NoScope.tree, 0)
            ELSE GetCandidateScopePaths(sm.fileScopes[fileName], currentScope)
        defs == CandidateSet(db, word)
    IN  [i \in 1..Len(defs) |->
            [def |-> defs[i], pos |-> i,
             score |-> ScoreDefinition(defs[i], fileName, candidateScopes,
                                       word, targetName)]]

\* The ranked candidates, best first.
Ranked(db, sm, fileName, word, line) ==
    SortByScore(ScoredCandidates(db, sm, fileName, word, line))

\* A slip: the filter is i <= 5.
TopCountOffByOne(ranked) ==
    IF Len(ranked) < MaxResults + 1 THEN Len(ranked) ELSE MaxResults + 1

\* ranked.filter((_, i) => i < 5): how many are kept.
TopCount(ranked) == IF Len(ranked) < MaxResults THEN Len(ranked) ELSE MaxResults

\* The part of provideDefinition after analyzeFile: word is the text of the
\* identifier range at the cursor (Empty when there is no range).  The result is
\* [defined, top]: undefined, or the records whose locations are returned.
Resolve(db, sm, fileName, word, line) ==
    IF word = Empty THEN [defined |-> FALSE, top |-> <<>>]
    ELSE LET ranked == Ranked(db, sm, fileName, word, line)
             top    == [i \in 1..TopCount(ranked) |-> ranked[i].def]
         IN  IF Len(ranked) = 0 THEN [defined |-> FALSE, top |-> <<>>]
             ELSE [defined |-> TRUE, top |-> top]

(***************************************************************************)
(* The environment: the files of the workspace and what the parser returns *)
(* for the texts they may hold.  parseFile gives every record the file it  *)
(* was called with.                                                        *)
(***************************************************************************)
Files == {"a.cpp", "b.cpp"}

sFoo == <<"f", "o", "o">>

sN == <<"N">>

sC == <<"C">>

sX == <<"x">>

sNC == sN \o Sep \o sC

\* namespace N { class C {           (line 0)
\*     int foo() {} }; }             (line 2)
ProgNested(f) ==
    << Sym(sN, "namespace", f, 0, 0, Empty, TRUE, FALSE),
       Sym(sC, "class", f, 0, 14, sN, TRUE, FALSE),
       Sym(sFoo, "function", f, 2, 4, sNC, TRUE, FALSE) >>

\* class C {                         (line 0)
\*     extern int x; };              (line 1; the member is reached twice, once
\* through the class body and once through the generic child walk, and the
\* records do not come in line order)
ProgMember(f) ==
    << Sym(sX, "variable", f, 1, 4, sC, FALSE, TRUE),
       Sym(sC, "class", f, 0, 0, Empty, TRUE, FALSE),
       Sym(sX, "variable", f, 1, 4, Empty, FALSE, TRUE) >>

\* What parseFile may return for file f.
Programs(f) == { <<>>, ProgNested(f), ProgMember(f) }

\* The identifier text under the cursor of a provideDefinition call.
Words == { sFoo }

(***************************************************************************)
(* The extension.  analyzeFile after its await, as one synchronous run:    *)
(* symbolDb.updateFile, scopeManager.buildScopeTree, scopeManager.updateFile*)
(***************************************************************************)
Db == [symbols |-> symbols, symbolIndex |-> symbolIndex]

Sm == [fileScopes |-> fileScopes, globalScopes |-> globalScopes]

\* An index value is [db, sm].
Index == [db |-> Db, sm |-> Sm]

\* A slip: the symbol database is updated and the scope manager is not (what a
\* reader would see if analyzeFile were suspended between the two).
AnalyzeCommitSymbolsOnly(ix, fileName, syms) ==
    [db |-> DbUpdateFile(ix.db, fileName, syms), sm |-> ix.sm]

AnalyzeCommit(ix, fileName, syms) ==
    LET db1 == DbUpdateFile(ix.db, fileName, syms)
        sm1 == SmBuildScopeTree(ix.sm, syms, fileName)
        sm2 == SmUpdateFile(sm1, fileName, sm1.fileScopes[fileName])
    IN  [db |-> db1, sm |-> sm2]

\* A slip: the onDidDelete handler without scopeManager.removeFile.
DeleteCommitSymbolsOnly(ix, fileName) ==
    [db |-> DbRemoveFile(ix.db, fileName), sm |-> ix.sm]

\* The body of the onDidDelete handler.
DeleteCommit(ix, fileName) ==
    [db |-> DbRemoveFile(ix.db, fileName), sm |-> SmRemoveFile(ix.sm, fileName)]

\* The index becomes value: the value is computed once and then assigned.
SetIndex(value) ==
    \E ix \in {value} :
        /\ symbols' = ix.db.symbols
        /\ symbolIndex' = ix.db.symbolIndex
        /\ fileScopes' = ix.sm.fileScopes
        /\ globalScopes' = ix.sm.globalScopes

\* What provideDefinition returns, with the query it answers.
Answer(ix, fileName, word, line) ==
    [word |-> word, line |-> line,
     result |-> Resolve(ix.db, ix.sm, fileName, word, line)]

NoAnswer == [word |-> Empty, line |-> 0, result |-> [defined |-> FALSE, top |-> <<>>]]

\* A handler slot.  overtaken is history: a delete event for the file of the
\* watcher's handler was handled while that handler was suspended.
Idle == [pc |-> "idle", file |-> "", parsed |-> <<>>, answer |-> NoAnswer,
         overtaken |-> FALSE]

\* No function is being called on its own.
NoCall == [fn |-> "none"]

Init ==
    /\ symbols = EmptyMap
    /\ symbolIndex = EmptyMap
    /\ fileScopes = EmptyMap
    /\ globalScopes = EmptyMap
    /\ handlers = [h \in {"watcher", "provider"} |-> Idle]
    /\ lastOp = [op |-> "none", file |-> "", had |-> FALSE]
    /\ call = NoCall

\* fileWatcher.onDidChange / onDidCreate fire: the handler starts and is
\* suspended at await openTextDocument(uri).
OnDidChange(f) ==
    /\ handlers["watcher"].pc = "idle"
    /\ handlers' = [handlers EXCEPT !["watcher"].pc = "opening",
                                    !["watcher"].file = f]
    /\ UNCHANGED <<symbols, symbolIndex, fileScopes, globalScopes, lastOp, call>>

\* openTextDocument resolves: analyzeFile is called, reads the text and is
\* suspended at await parseFile(...), whose result is fixed by that text.
OpenResolves(syms) ==
    /\ handlers["watcher"].pc = "opening"
    /\ syms \in Programs(handlers["watcher"].file)
    /\ handlers' = [handlers EXCEPT !["watcher"].pc = "parsing",
                                    !["watcher"].parsed = syms]
    /\ UNCHANGED <<symbols, symbolIndex, fileScopes, globalScopes, lastOp, call>>

\* openTextDocument rejects (the file is gone): the handler ends there.
OpenRejects ==
    /\ handlers["watcher"].pc = "opening"
    /\ handlers' = [handlers EXCEPT !["watcher"] = Idle]
    /\ UNCHANGED <<symbols, symbolIndex, fileScopes, globalScopes, lastOp, call>>

\* provideDefinition is called on a document: analyzeFile(document) reads the
\* text and is suspended at await parseFile(...).
ProvideDefinitionCalled(f, syms) ==
    /\ handlers["provider"].pc = "idle"
    /\ syms \in Programs(f)
    /\ handlers' = [handlers EXCEPT !["provider"].pc = "parsing",
                                    !["provider"].file = f,
                                    !["provider"].parsed = syms]
    /\ UNCHANGED <<symbols, symbolIndex, fileScopes, globalScopes, lastOp, call>>

\* analyzeFile resumes after await parseFile and runs to its end.  The watcher's
\* handler ends with it; provideDefinition is suspended at await analyzeFile.
AnalyzeFileResumes(h) ==
    /\ handlers[h].pc = "parsing"
    /\ SetIndex(AnalyzeCommit(Index, handlers[h].file, handlers[h].parsed))
    /\ handlers' = [handlers EXCEPT ![h] =
                        IF h = "provider"
                        THEN [@ EXCEPT !.pc = "analyzed", !.parsed = <<>>]
                        ELSE Idle]
    /\ lastOp' = [op |-> "analyze", file |-> handlers[h].file,
                  had |-> MapHas(symbols, handlers[h].file)]
    /\ UNCHANGED call

\* provideDefinition resumes after await analyzeFile(document) and answers for
\* the identifier at the cursor (the cursor position is an argument of the call;
\* nothing reads it before this step).
ProvideDefinitionResumes(word, line) ==
    /\ handlers["provider"].pc = "analyzed"
    /\ handlers' = [handlers EXCEPT !["provider"].pc = "answered",
                        !["provider"].answer =
                            Answer(Index, handlers["provider"].file, word, line)]
    /\ UNCHANGED <<symbols, symbolIndex, fileScopes, globalScopes, lastOp, call>>

\* The editor takes the answer; the provider can be called again.
AnswerTaken ==
    /\ handlers["provider"].pc = "answered"
    /\ handlers' = [handlers EXCEPT !["provider"] = Idle]
    /\ UNCHANGED <<symbols, symbolIndex, fileScopes, globalScopes, lastOp, call>>

\* fileWatcher.onDidDelete fires: a synchronous handler.
OnDidDelete(f) ==
    /\ SetIndex(DeleteCommit(Index, f))
    /\ lastOp' = [op |-> "remove", file |-> f, had |-> MapHas(symbols, f)]
    /\ handlers' = [handlers EXCEPT !["watcher"].overtaken =
                        @ \/ (handlers["watcher"].pc \in {"opening", "parsing"}
                              /\ handlers["watcher"].file = f)]
    /\ UNCHANGED call

Next ==
    \/ \E f \in Files : OnDidChange(f)
    \/ \E f \in Files : \E syms \in Programs(f) : OpenResolves(syms)
    \/ OpenRejects
    \/ \E f \in Files : \E syms \in Programs(f) : ProvideDefinitionCalled(f, syms)
    \/ \E h \in {"watcher", "provider"} : AnalyzeFileResumes(h)
    \/ \E word \in Words : \E line \in Lines : ProvideDefinitionResumes(word, line)
    \/ AnswerTaken
    \/ \E f \in Files : OnDidDelete(f)

Spec == Init /\ [][Next]_vars

(***************************************************************************)
(* Sequential use of the extension, for the resolver: every handler runs   *)
(* to its end before the next event is handled, over texts that give the   *)
(* resolver candidates to rank.                                            *)
(***************************************************************************)
sD == <<"D">>

sBC == <<"B", "C">>

\* int foo() {}                      (line 0)
\* int foo(int) {}                   (line 1)
\* extern int foo; int foo(char) {}  (line 2)
ProgOverloads(f) ==
    << Sym(sFoo, "function", f, 0, 0, Empty, TRUE, FALSE),
       Sym(sFoo, "function", f, 1, 0, Empty, TRUE, FALSE),
       Sym(sFoo, "variable", f, 2, 0, Empty, FALSE, TRUE),
       Sym(sFoo, "function", f, 2, 16, Empty, TRUE, FALSE) >>

\* class D {                         (line 0)
\*     int foo() {} };               (line 1)
\* int D::foo() {}                   (line 2)
ProgOther(f) ==
    << Sym(sD, "class", f, 0, 0, Empty, TRUE, FALSE),
       Sym(sFoo, "function", f, 1, 4, sD, TRUE, FALSE),
       Sym(sD \o Sep \o sFoo, "function", f, 2, 0, Empty, TRUE, FALSE) >>

\* struct BC {                       (line 0)
\*     int foo() {} };               (line 1)
ProgSuffix(f) ==
    << Sym(sBC, "struct", f, 0, 0, Empty, TRUE, FALSE),
       Sym(sFoo, "function", f, 1, 4, sBC, TRUE, FALSE) >>

ResolverPrograms(f) ==
    { ProgNested(f), ProgOverloads(f), ProgOther(f), ProgSuffix(f) }

\* The identifier texts a cursor may be on (Empty: no identifier there).
ResolverWords == { Empty, sFoo, sX, sC \o Sep \o sFoo, sD \o Sep \o sFoo }

\* A change or create event handled from its start to the end of analyzeFile.
AnalyzeFileRuns(f, syms) ==
    /\ handlers["provider"].pc = "idle"
    /\ SetIndex(AnalyzeCommit(Index, f, syms))
    /\ lastOp' = [op |-> "analyze", file |-> f, had |-> MapHas(symbols, f)]
    /\ UNCHANGED <<handlers, call>>

\* A provideDefinition call handled from its start to its answer.
ProvideDefinitionRuns(f, syms, word, line) ==
    /\ handlers["provider"].pc = "idle"
    /\ \E ix \in {AnalyzeCommit(Index, f, syms)} :
        /\ SetIndex(ix)
        /\ handlers' = [handlers EXCEPT
                !["provider"].pc = "answered",
                !["provider"].file = f,
                !["provider"].answer = Answer(ix, f, word, line)]
    /\ lastOp' = [op |-> "analyze", file |-> f, had |-> MapHas(symbols, f)]
    /\ UNCHANGED call

\* A delete event, between two calls.
DeleteRuns(f) ==
    /\ handlers["provider"].pc = "idle"
    /\ OnDidDelete(f)

ResolveNext ==
    \/ \E f \in Files : \E syms \in ResolverPrograms(f) : AnalyzeFileRuns(f, syms)
    \/ \E f \in Files : \E syms \in ResolverPrograms(f) :
           \E word \in ResolverWords : \E line \in Lines :
               ProvideDefinitionRuns(f, syms, word, line)
    \/ AnswerTaken
    \/ \E f \in Files : DeleteRuns(f)

ResolveSpec == Init /\ [][ResolveNext]_vars

(***************************************************************************)
(* Direct use of the two classes: a first analysis of one file with any    *)
(* record list, as updateFile and buildScopeTree accept any Symbol[], and  *)
(* its removal.  A record's name follows from its kind; the shorter lists  *)
(* also come with records whose name is empty.                             *)
(***************************************************************************)
MaxLen == 4

DirectFile == "a.cpp"

DirectNames == [namespace |-> sN, class |-> sC, variable |-> sX]

DirectRecords ==
    { Sym(DirectNames[kl[1]], kl[1], DirectFile, kl[2], 0, Empty, TRUE, FALSE) :
          kl \in (DOMAIN DirectNames) \X Lines }

ListsUpTo(n) == UNION { [1..k -> DirectRecords] : k \in 0..n }

\* list l with the records at the positions of set u left without a name.
Unnamed(l, u) ==
    [i \in 1..Len(l) |-> IF i \in u THEN [l[i] EXCEPT !.name = Empty] ELSE l[i]]

SymbolLists ==
    ListsUpTo(MaxLen) \cup
    UNION { { Unnamed(l, u) : u \in SUBSET (1..Len(l)) } : l \in ListsUpTo(MaxLen - 2) }

\* updateFile, buildScopeTree and updateFile on an index that holds no file.
FirstAnalysis ==
    /\ symbols = EmptyMap
    /\ \E syms \in SymbolLists : AnalyzeFileRuns(DirectFile, syms)

DirectNext ==
    \/ FirstAnalysis
    \/ DeleteRuns(DirectFile)

DirectSpec == Init /\ [][DirectNext]_vars

(***************************************************************************)
(* Two functions called on their own, with arguments of the shapes their   *)
(* callers pass: scoreDefinition, with a candidate of the identifier and   *)
(* the candidate scope paths of a cursor line of an analysed text, and     *)
(* lookupDefinition, with the rows read from the index file.               *)
(***************************************************************************)
\* namespace N { namespace N { int foo() {} } }        (line 0)
ProgTwice(f) ==
    << Sym(sN, "namespace", f, 0, 0, Empty, TRUE, FALSE),
       Sym(sN, "namespace", f, 0, 14, sN, TRUE, FALSE),
       Sym(sFoo, "function", f, 0, 28, sN \o Sep \o sN, TRUE, FALSE) >>

ScoredPrograms(f) == ResolverPrograms(f) \cup {ProgTwice(f), ProgMember(f)}

\* getCandidateScopePaths(findScopeAtPosition(fileName, line)) once the text
\* syms of the document has been analysed.
CandidateScopesAt(syms, line) ==
    LET tree == ScopeTreeOf(syms)
    IN  GetCandidateScopePaths(tree, FindScopeAtLine(tree, tree.roots, line))

\* scoreDefinition is called for one candidate of the identifier.
ScoreDefinitionCalled(def, currentFile, syms, word, line) ==
    /\ call = NoCall
    /\ def.isDefinition
    /\ def.name \in {GetUnqualifiedName(word), word}
    /\ \E candidateScopes \in {CandidateScopesAt(syms, line)} :
           call' = [fn |-> "scoreDefinition", def |-> def,
                    currentFile |-> currentFile,
                    candidateScopes |-> candidateScopes, word |-> word,
                    targetName |-> GetUnqualifiedName(word),
                    ret |-> ScoreDefinition(def, currentFile, candidateScopes,
                                            word, GetUnqualifiedName(word))]
    /\ UNCHANGED <<symbols, symbolIndex, fileScopes, globalScopes, handlers, lastOp>>

\* The length the comparator uses for a row whose scope is missing or empty.
NoScopeLength == 9999

\* (a.scope?.length || 9999): a missing scope and the empty string both give
\* 9999; a row without a scope is modelled as a row whose scope is Empty.
ScopeLength(r) == IF Len(r.scope) = 0 THEN NoScopeLength ELSE Len(r.scope)

FileRank(r, currentFile) == IF r.file = currentFile THEN 0 - 1 ELSE 0

\* The comparator of lookupDefinition's sort: negative when a goes first.
CompareRows(a, b, currentFile) ==
    IF FileRank(a, currentFile) - FileRank(b, currentFile) # 0
    THEN FileRank(a, currentFile) - FileRank(b, currentFile)
    ELSE ScopeLength(a) - ScopeLength(b)

\* Array.prototype.sort is stable: a row goes before the first row it is
\* strictly less than.
RECURSIVE InsertRow(_, _, _)
InsertRow(sorted, r, currentFile) ==
    IF sorted = <<>> THEN <<r>>
    ELSE IF CompareRows(r, Head(sorted), currentFile) < 0
         THEN <<r>> \o sorted
         ELSE <<Head(sorted)>> \o InsertRow(Tail(sorted), r, currentFile)

RECURSIVE SortRows(_, _)
SortRows(rows, currentFile) ==
    IF rows = <<>> THEN <<>>
    ELSE InsertRow(SortRows(SubSeq(rows, 1, Len(rows) - 1), currentFile),
                   Last(rows), currentFile)

\* lookupDefinition(indexFile, identifier, currentFile), rows being the lines of
\* the index file that parse to an object with a string name.
LookupDefinition(rows, identifier, currentFile) ==
    SortRows(SelectSeq(rows, LAMBDA r :
                 r.name = identifier \/ EndsWith(r.name, Sep \o identifier)),
             currentFile)

MaxRows == 3

\* type DefRow; the position of a row plays no part in the lookup.
DefRows ==
    { [name |-> n, scope |-> s, file |-> f, line |-> 0, column |-> 0] :
          n \in {sFoo, sD \o Sep \o sFoo, sX}, s \in {Empty, sC, sNC}, f \in Files }

RECURSIVE RowLists(_)
RowLists(n) ==
    IF n = 0 THEN {<<>>}
    ELSE RowLists(n - 1) \cup
         { Append(l, r) : l \in {x \in RowLists(n - 1) : Len(x) = n - 1}, r \in DefRows }

\* The go-to-definition command looks the identifier up in the index file.
LookupDefinitionCalled(rows, identifier, currentFile) ==
    /\ call = NoCall
    /\ call' = [fn |-> "lookupDefinition", rows |-> rows,
                identifier |-> identifier, currentFile |-> currentFile,
                ret |-> LookupDefinition(rows, identifier, currentFile)]
    /\ UNCHANGED <<symbols, symbolIndex, fileScopes, globalScopes, handlers, lastOp>>

\* The caller has the returned value.
CallReturns ==
    /\ call # NoCall
    /\ call' = NoCall
    /\ UNCHANGED <<symbols, symbolIndex, fileScopes, globalScopes, handlers, lastOp>>

\* A call of scoreDefinition with any candidate and cursor of the texts.
ScoreDefinitionCall ==
    /\ call = NoCall
    /\ \E currentFile \in Files : \E syms \in ScoredPrograms(currentFile) :
           \E g \in Files : \E other \in ScoredPrograms(g) :
               \E i \in 1..Len(other) : \E word \in ResolverWords \ {Empty} :
                   \E line \in Lines :
                       ScoreDefinitionCalled(other[i], currentFile, syms, word, line)

\* A call of lookupDefinition with any index file of up to MaxRows rows.
LookupDefinitionCall ==
    /\ call = NoCall
    /\ \E rows \in RowLists(MaxRows) : \E identifier \in {sFoo, sX} :
           \E currentFile \in Files :
               LookupDefinitionCalled(rows, identifier, currentFile)

CallNext ==
    \/ ScoreDefinitionCall
    \/ LookupDefinitionCall
    \/ CallReturns

CallSpec == Init /\ [][CallNext]_vars

(***************************************************************************)
(* Properties.                                                             *)
(***************************************************************************)
Count(seq, r) == Cardinality({i \in 1..Len(seq) : seq[i] = r})

Range(seq) == {seq[i] : i \in 1..Len(seq)}

RecordsOfTable == UNION {Range(symbols[f]) : f \in DOMAIN symbols}

RecordsOfIndex == UNION {Range(symbolIndex[n]) : n \in DOMAIN symbolIndex}

\* How often record r occurs in the symbol lists of the given files.
RECURSIVE CountInTable(_, _)
CountInTable(files, r) ==
    IF files = {} THEN 0
    ELSE LET f == CHOOSE x \in files : TRUE
         IN  Count(symbols[f], r) + CountInTable(files \ {f}, r)

ScopeNames(tree) == {tree.nodes[i].name : i \in 1..Len(tree.nodes)}

AllIdle == \A h \in DOMAIN handlers : handlers[h].pc = "idle"

\* C1: the name index is the projection of the file table grouped by name: every
\* record of a bucket carries the bucket's name, and every record occurs in the
\* bucket of its name exactly as often as in the symbol lists of the files.
C1_NameIndexIsProjection ==
    /\ \A n \in DOMAIN symbolIndex : \A r \in Range(symbolIndex[n]) : r.name = n
    /\ \A r \in RecordsOfTable \cup RecordsOfIndex :
           Count(FindSymbolsByName(Db, r.name), r) = CountInTable(DOMAIN symbols, r)

\* A file was analysed again while a bucket holds records of both files.
C1_Witness ==
    /\ lastOp.op = "analyze" /\ lastOp.had
    /\ \E n \in DOMAIN symbolIndex : \E r1, r2 \in Range(symbolIndex[n]) :
           r1.file # r2.file

\* C2: every scope the registry holds is a scope of the tree currently stored
\* for some indexed file.
C2_RegistryHoldsOnlyCurrentScopes ==
    \A n \in DOMAIN globalScopes :
        \E f \in DOMAIN fileScopes : globalScopes[n].tree = fileScopes[f]

\* C3 as claimed: every scope name of a stored tree has a registry entry.
C3_RegistryCoversCurrentNames ==
    \A f \in DOMAIN fileScopes :
        \A n \in ScopeNames(fileScopes[f]) : MapHas(globalScopes, n)

\* The step is the end of analyzeFile in handler h.
AnalysisEnds(h) == handlers[h].pc = "parsing" /\ handlers'[h].pc # "parsing"

\* C3 as amended: last write wins up to removals.  The analysis of a file makes
\* every scope name of its new tree map to a scope of that tree; an entry changes
\* only by such an analysis; and an entry disappears only by the removal of a
\* file whose stored tree has a scope of that name.
C3_LastWriteWinsUpToRemoval ==
    [][ /\ \A h \in DOMAIN handlers : AnalysisEnds(h) =>
               \A n \in ScopeNames(fileScopes'[handlers[h].file]) :
                   /\ MapHas(globalScopes', n)
                   /\ globalScopes'[n].tree = fileScopes'[handlers[h].file]
                   /\ globalScopes'[n].tree.nodes[globalScopes'[n].idx].name = n
        /\ \A n \in DOMAIN globalScopes :
               /\ (MapHas(globalScopes', n) /\ globalScopes'[n] # globalScopes[n]) =>
                      \E h \in DOMAIN handlers :
                          /\ AnalysisEnds(h)
                          /\ n \in ScopeNames(fileScopes'[handlers[h].file])
               /\ ~MapHas(globalScopes', n) =>
                      \E f \in DOMAIN fileScopes \ DOMAIN fileScopes' :
                          n \in ScopeNames(fileScopes[f])
      ]_vars

\* An indexed file was removed and a scope name of a file that is still indexed
\* has no registry entry.
C3_Witness ==
    /\ lastOp.op = "remove" /\ lastOp.had
    /\ \E f \in DOMAIN fileScopes :
           \E n \in ScopeNames(fileScopes[f]) : ~MapHas(globalScopes, n)

\* C4: from every index state (each is reached with no handler in flight, every
\* write to the index being one synchronous run), analysing a file twice in a
\* row with the same symbols gives the index that analysing it once gives.
C4_ReindexIsIdempotent ==
    AllIdle =>
        \A f \in Files : \A syms \in Programs(f) :
            \E once \in {AnalyzeCommit(Index, f, syms)} :
                AnalyzeCommit(once, f, syms) = once

\* A file that was indexed was analysed again, the index is what one more
\* analysis with its symbols gives, the other file shares a bucket with it and
\* the registry holds a name the file no longer has.
C4_Witness ==
    /\ AllIdle
    /\ lastOp.op = "analyze" /\ lastOp.had
    /\ symbols[lastOp.file] # <<>>
    /\ AnalyzeCommit(Index, lastOp.file, symbols[lastOp.file]) = Index
    /\ \E n \in DOMAIN symbolIndex : \E r1, r2 \in Range(symbolIndex[n]) :
           r1.file # r2.file
    /\ \E n \in DOMAIN globalScopes :
           \A f \in DOMAIN fileScopes : n \notin ScopeNames(fileScopes[f])

\* C5: once a file is removed and not analysed since, no bucket holds a record
\* of it, it has no symbols, and no line of it has a scope.
C5_RemoveIsTotal ==
    \A f \in Files :
        ((lastOp.op = "remove" /\ lastOp.file = f) \/ ~MapHas(symbols, f)) =>
            /\ \A r \in RecordsOfIndex : r.file # f
            /\ GetSymbolsInFile(Db, f) = <<>>
            /\ \A line \in Lines : FindScopeAtPosition(Sm, f, line) = 0

\* An indexed file was removed and a bucket still holds the other file's records.
C5_Witness ==
    /\ lastOp.op = "remove" /\ lastOp.had
    /\ \E r \in RecordsOfIndex : r.file # lastOp.file

\* C6: in every state (each is a point where the handlers in flight are
\* suspended at an await) the stored scope tree of every file is the tree of the
\* symbol list stored for it, and both tables hold the same files.
C6_NoHalfUpdatedFile ==
    /\ DOMAIN symbols = DOMAIN fileScopes
    /\ \A f \in DOMAIN symbols : fileScopes[f] = ScopeTreeOf(symbols[f])

\* Both handlers are in flight on the same indexed file, the provider between
\* its analysis and its answer, the watcher holding other symbols for the file.
C6_Witness ==
    /\ handlers["watcher"].pc = "parsing"
    /\ handlers["provider"].pc = "analyzed"
    /\ handlers["watcher"].file = handlers["provider"].file
    /\ MapHas(symbols, handlers["watcher"].file)
    /\ symbols[handlers["watcher"].file] # <<>>
    /\ handlers["watcher"].parsed # symbols[handlers["watcher"].file]

\* C7: when the analysis a change event started ends after a delete event of the
\* same file was handled, with nothing else written since and no other handler
\* in flight, the index holds no symbols and no scopes of the file.
C7_DeleteAfterChangeWins ==
    [][ ( /\ handlers["watcher"].pc # "idle"
          /\ handlers'["watcher"].pc = "idle"
          /\ handlers["watcher"].overtaken
          /\ lastOp.op = "remove" /\ lastOp.file = handlers["watcher"].file
          /\ handlers["provider"].pc = "idle" )
        => /\ ~MapHas(symbols', handlers["watcher"].file)
           /\ ~MapHas(fileScopes', handlers["watcher"].file)
           /\ \A r \in UNION {Range(symbolIndex'[n]) : n \in DOMAIN symbolIndex'} :
                  r.file # handlers["watcher"].file
      ]_vars

\* C8: no step of a provideDefinition call changes the tables of the index.
C8_ProvideDefinitionIsPureRead ==
    [][ handlers'["provider"] # handlers["provider"] =>
            UNCHANGED <<symbols, symbolIndex, fileScopes, globalScopes>> ]_vars

\* C9: a provideDefinition call repeated on the same document text, identifier
\* and line, with no write to the index in between, returns what the first
\* call returned.
C9_ResolveIsDeterministic ==
    handlers["provider"].pc = "answered" =>
        Answer(AnalyzeCommit(Index, handlers["provider"].file,
                             symbols[handlers["provider"].file]),
               handlers["provider"].file,
               handlers["provider"].answer.word,
               handlers["provider"].answer.line) = handlers["provider"].answer

\* A call returned two or more records, of both files.
C9_Witness ==
    /\ handlers["provider"].pc = "answered"
    /\ handlers["provider"].answer.result.defined
    /\ \E r1, r2 \in Range(handlers["provider"].answer.result.top) : r1.file # r2.file

\* scope is neither an entry of paths nor ends with a non-empty entry of paths
\* (every string ends with the empty path).
Unrelated(scope, paths) ==
    /\ ~SeqHas(paths, scope)
    /\ ~\E k \in 1..Len(paths) : paths[k] # Empty /\ EndsWith(scope, paths[k])

\* The pairs (p, q) of ranked places of a candidate A in the exact current scope
\* and a same-named candidate B of another file in an unrelated scope.
ExactVersusUnrelated(f, word, line) ==
    LET cur == FindScopeAtPosition(Sm, f, line) IN
    IF cur = 0 THEN {}
    ELSE LET full   == GetScopePath(fileScopes[f], cur)
             paths  == GetCandidateScopePaths(fileScopes[f], cur)
             ranked == Ranked(Db, Sm, f, word, line)
         IN  { pq \in (1..Len(ranked)) \X (1..Len(ranked)) :
                 /\ ranked[pq[1]].def.scope = full
                 /\ ranked[pq[2]].def.name = ranked[pq[1]].def.name
                 /\ ranked[pq[2]].def.file # f
                 /\ Unrelated(ranked[pq[2]].def.scope, paths) }

\* C10: in an answer, a candidate in the exact current scope scores at least as
\* much as, and is ranked before, a same-named candidate of another file in an
\* unrelated scope; the records returned are the first of that ranking.
C10_RankingMonotone ==
    handlers["provider"].pc = "answered" =>
        LET f      == handlers["provider"].file
            answer == handlers["provider"].answer
            ranked == Ranked(Db, Sm, f, answer.word, answer.line)
        IN  /\ \A pq \in ExactVersusUnrelated(f, answer.word, answer.line) :
                   /\ ranked[pq[1]].score >= ranked[pq[2]].score
                   /\ pq[1] < pq[2]
            /\ (answer.word # Empty) =>
                   /\ Len(answer.result.top) = TopCount(ranked)
                   /\ \A i \in 1..Len(answer.result.top) :
                          answer.result.top[i] = ranked[i].def

\* An answer with such a pair, for an unqualified and for a qualified identifier
\* whose qualifier the unrelated candidate's scope ends with.
C10_Witness ==
    /\ handlers["provider"].pc = "answered"
    /\ Includes(handlers["provider"].answer.word, Sep)
    /\ \E pq \in ExactVersusUnrelated(handlers["provider"].file,
                                      handlers["provider"].answer.word,
                                      handlers["provider"].answer.line) :
           LET ranked == Ranked(Db, Sm, handlers["provider"].file,
                                handlers["provider"].answer.word,
                                handlers["provider"].answer.line)
               qualifier == SubSeq(handlers["provider"].answer.word, 1,
                                   LastIndexOf(handlers["provider"].answer.word, Sep) - 1)
           IN  /\ EndsWith(ranked[pq[2]].def.scope, qualifier)
               /\ ~EndsWith(ranked[pq[1]].def.scope, qualifier)
               /\ pq[2] <= Len(handlers["provider"].answer.result.top)

\* The record of the given kind and line that the direct calls pass.
DirectRecord(kind, line) ==
    Sym(DirectNames[kind], kind, DirectFile, line, 0, Empty, TRUE, FALSE)

\* The tree stored for the file of the direct calls (the empty tree if none).
DirectTree ==
    IF MapHas(fileScopes, DirectFile) THEN fileScopes[DirectFile]
    ELSE [nodes |-> <<>>, roots |-> <<>>]

\* The symbol list stored for the file of the direct calls.
DirectList == GetSymbolsInFile(Db, DirectFile)

Depth(tree, idx) == Len(GetScopeHierarchy(tree, idx))

Covers(scope, line) == line >= scope.startLine /\ line <= scope.endLine

\* C11: after indexing one file with a namespace, a class on a later line and a
\* member on a still later line, the scope at the member's line is the class
\* and its path is the namespace's name, the separator and the class's name.
C11_NestedScopePath ==
    \A l0, l1, l2 \in Lines :
        ( /\ l0 < l1 /\ l1 < l2
          /\ MapHas(symbols, DirectFile)
          /\ symbols[DirectFile] = << DirectRecord("namespace", l0),
                                      DirectRecord("class", l1),
                                      DirectRecord("variable", l2) >> )
        => \E cur \in {FindScopeAtPosition(Sm, DirectFile, l2)} :
               /\ cur # 0
               /\ DirectTree.nodes[cur].name = sC
               /\ GetScopePath(DirectTree, cur) = sN \o Sep \o sC

\* C17: a record without a name that updateFile was given is in no bucket.
C17_UnnamedRecordsSkipped ==
    \A r \in RecordsOfTable : r.name = Empty => r \notin RecordsOfIndex

\* C18: every record in a scope's symbols list has a line not before the
\* scope's start line, in every stored tree.
C18_ScopeContainment ==
    \A f \in DOMAIN fileScopes :
        \A i \in 1..Len(fileScopes[f].nodes) :
            \A s \in Range(fileScopes[f].nodes[i].symbols) :
                s.line >= fileScopes[f].nodes[i].startLine

\* The list given was not in line order: a scope holds a record that came
\* before the scope's own record in the list.
C18_Witness ==
    \E i, j \in 1..Len(DirectList) :
        /\ i < j
        /\ DirectList[i].line > DirectList[j].line
        /\ \E k \in 1..Len(DirectTree.nodes) :
               /\ DirectTree.nodes[k].symbols[1] = DirectList[j]
               /\ DirectList[i] \in Range(DirectTree.nodes[k].symbols)

\* The place in the line-sorted list of the record that opened scope k: the
\* k-th scope record (scopes are created in that order).
OpenedAt(sorted, k) ==
    CHOOSE p \in 1..Len(sorted) :
        /\ IsScopeSymbol(sorted[p])
        /\ Cardinality({q \in 1..p : IsScopeSymbol(sorted[q])}) = k

\* C19: every scope's endLine is the line of the last record of its own list
\* whose kind differs from the scope's, or its startLine when there is none;
\* a scope whose record is followed, in line order, by no record of another
\* kind has endLine = startLine.
C19_EndLineBackfill ==
    \A f \in DOMAIN fileScopes :
        \A k \in 1..Len(fileScopes[f].nodes) :
            LET scope  == fileScopes[f].nodes[k]
                others == SelectSeq(scope.symbols, LAMBDA s : s.kind # scope.type)
                sorted == SortByLine(symbols[f])
            IN  /\ scope.endLine = IF others # <<>> THEN Last(others).line
                                   ELSE scope.startLine
                /\ (\A q \in (OpenedAt(sorted, k) + 1)..Len(sorted) :
                        sorted[q].kind = scope.type)
                   => scope.endLine = scope.startLine

\* One scope ends after the line it starts on, and another scope, followed
\* only by records of its own kind, ends on its start line.
C19_Witness ==
    /\ \E k \in 1..Len(DirectTree.nodes) :
           DirectTree.nodes[k].endLine > DirectTree.nodes[k].startLine
    /\ \E k \in 1..Len(DirectTree.nodes) :
           LET sorted == SortByLine(DirectList) IN
           /\ OpenedAt(sorted, k) < Len(sorted)
           /\ \A q \in (OpenedAt(sorted, k) + 1)..Len(sorted) :
                  sorted[q].kind = DirectTree.nodes[k].type
           /\ DirectTree.nodes[k].endLine = DirectTree.nodes[k].startLine

\* C20: the scope findScopeAtPosition returns for a line is at least as deep as
\* every scope of the file's tree that covers the line.
C20_DeepestCoveringScope ==
    \A line \in Lines :
        \E cur \in {FindScopeAtPosition(Sm, DirectFile, line)} :
            \A k \in 1..Len(DirectTree.nodes) :
                Covers(DirectTree.nodes[k], line) =>
                    /\ cur # 0
                    /\ Depth(DirectTree, cur) >= Depth(DirectTree, k)

\* The provideDefinition call that has answered: its file, identifier, line
\* and the records returned.
Asked == handlers["provider"].pc = "answered" /\ handlers["provider"].answer.word # Empty

AskedFile == handlers["provider"].file

AskedWord == handlers["provider"].answer.word

AskedLine == handlers["provider"].answer.line

Returned == handlers["provider"].answer.result.top

\* t is the text of word after its last separator.
IsTargetOf(t, word) ==
    /\ ~Includes(t, Sep)
    /\ \/ t = word
       \/ \E k \in 1..(Len(word) - 1) :
              SubSeq(word, k, k + 1) = Sep /\ t = SubSeq(word, k + 2, Len(word))

\* The text of word before its last separator.
QualifierOf(word) ==
    CHOOSE q \in {SubSeq(word, 1, k) : k \in 0..Len(word)} :
        \E t \in {SubSeq(word, k, Len(word)) : k \in 1..(Len(word) + 1)} :
            IsTargetOf(t, word) /\ word = q \o Sep \o t

\* C12: when a returned record of another file has global scope and the file of
\* the cursor holds a definition that differs from it in the file only, that
\* definition is returned before it.
C12_FileLocality ==
    Asked =>
        \A j \in 1..Len(Returned) :
            LET other == Returned[j]
                own   == [other EXCEPT !.file = AskedFile]
            IN  ( /\ other.file # AskedFile
                  /\ other.scope = Empty
                  /\ own \in Range(symbols[AskedFile])
                  /\ own.isDefinition )
                => \E i \in 1..(j - 1) : Returned[i] = own

\* Both files hold the same global definitions of the identifier, and one of
\* the other file is returned.
C12_Witness ==
    /\ Asked
    /\ AskedWord = sFoo
    /\ \E j \in 1..Len(Returned) :
           /\ Returned[j].file # AskedFile
           /\ Returned[j].scope = Empty
           /\ [Returned[j] EXCEPT !.file = AskedFile] \in Range(symbols[AskedFile])

\* C13: for a qualified identifier, when exactly one definition with the
\* unqualified name has a scope ending in the qualifier, no definition with that
\* name whose scope does not end in the qualifier is returned ahead of it.
C13_QualifiedFirst ==
    (Asked /\ Includes(AskedWord, Sep)) =>
        LET inScope == { r \in RecordsOfTable :
                           /\ r.isDefinition
                           /\ IsTargetOf(r.name, AskedWord)
                           /\ EndsWith(r.scope, QualifierOf(AskedWord)) }
        IN  Cardinality(inScope) = 1 =>
                \A j \in 1..Len(Returned) :
                    ( /\ IsTargetOf(Returned[j].name, AskedWord)
                      /\ ~EndsWith(Returned[j].scope, QualifierOf(AskedWord)) )
                    => \E i \in 1..(j - 1) : Returned[i] \in inScope

\* The scored candidates of the call that has answered.
AskedCandidates == ScoredCandidates(Db, Sm, AskedFile, AskedWord, AskedLine)

\* The place in the candidate list of the i-th returned record.
PlaceOf(i) == CHOOSE k \in 1..Len(AskedCandidates) : AskedCandidates[k].def = Returned[i]

\* C14: at most 5 records are returned, all of them candidates, 5 when there
\* are that many; their scores do not increase, equal scores keep the candidate
\* order, and no candidate left out scores higher than a returned one.
C14_TopFiveStable ==
    Asked =>
        /\ Len(Returned) <= 5
        /\ Len(Returned) = IF Len(AskedCandidates) < 5 THEN Len(AskedCandidates) ELSE 5
        /\ \A i \in 1..Len(Returned) :
               \E k \in 1..Len(AskedCandidates) : AskedCandidates[k].def = Returned[i]
        /\ \A i, j \in 1..Len(Returned) : i < j =>
               /\ AskedCandidates[PlaceOf(i)].score >= AskedCandidates[PlaceOf(j)].score
               /\ AskedCandidates[PlaceOf(i)].score = AskedCandidates[PlaceOf(j)].score
                      => PlaceOf(i) < PlaceOf(j)
        /\ \A k \in 1..Len(AskedCandidates) :
               (\A i \in 1..Len(Returned) : PlaceOf(i) # k) =>
                   \A i \in 1..Len(Returned) :
                       AskedCandidates[k].score <= AskedCandidates[PlaceOf(i)].score

\* More than 5 candidates, two returned records of equal score and a returned
\* record that scores more than one that comes before it in the candidate list.
C14_Witness ==
    /\ Asked
    /\ Len(AskedCandidates) > 5
    /\ \E i, j \in 1..Len(Returned) :
           i < j /\ AskedCandidates[PlaceOf(i)].score = AskedCandidates[PlaceOf(j)].score
    /\ \E i, j \in 1..Len(Returned) :
           /\ i < j /\ PlaceOf(i) > PlaceOf(j)
           /\ AskedCandidates[PlaceOf(i)].score > AskedCandidates[PlaceOf(j)].score

\* r is a definition named as the unqualified identifier or, for a qualified
\* identifier, as the identifier.
IsCandidate(r, word) ==
    /\ r.isDefinition
    /\ \/ IsTargetOf(r.name, word)
       \/ (Includes(word, Sep) /\ r.name = word)

\* C15: the candidates are the stored definitions named as the unqualified
\* identifier or as the qualified identifier itself, each as often as the
\* files' lists hold it, and every returned record is one of them.
C15_CandidateSet ==
    Asked =>
        \E cands \in {CandidateSet(Db, AskedWord)} :
            /\ \A r \in Range(cands) : r \in RecordsOfTable /\ IsCandidate(r, AskedWord)
            /\ \A r \in RecordsOfTable : IsCandidate(r, AskedWord) =>
                   Count(cands, r) = CountInTable(DOMAIN symbols, r)
            /\ \A i, j \in 1..Len(cands) : i # j => cands[i] # cands[j]
            /\ \A i \in 1..Len(Returned) : Returned[i] \in Range(cands)

\* A qualified identifier with candidates of both names, while a stored record
\* of the unqualified name is no definition.
C15_Witness ==
    /\ Asked
    /\ Includes(AskedWord, Sep)
    /\ \E r \in Range(Returned) : r.name = AskedWord
    /\ \E r \in Range(Returned) : IsTargetOf(r.name, AskedWord)
    /\ \E r \in RecordsOfTable : IsTargetOf(r.name, AskedWord) /\ ~r.isDefinition

\* C16: a provideDefinition call that finds no candidate for its identifier
\* leaves the tables of the index as they were.
C16_NotFoundChangesNothing ==
    [][ ( /\ handlers["provider"].pc = "idle"
          /\ handlers'["provider"].pc = "answered"
          /\ handlers'["provider"].answer.word # Empty
          /\ ~handlers'["provider"].answer.result.defined )
        => UNCHANGED <<symbols, symbolIndex, fileScopes, globalScopes>> ]_vars


Scored == call.fn = "scoreDefinition"

Delta(cond, points) == IF cond THEN points ELSE 0

\* The entries of the candidate scope paths of the call that are not empty and
\* that the candidate's scope ends with.
SuffixEntries ==
    { i \in 1..Len(call.candidateScopes) :
          /\ call.candidateScopes[i] # Empty
          /\ EndsWith(call.def.scope, call.candidateScopes[i]) }

\* C21: the score of a candidate is exactly the sum of the deltas of the table,
\* each counted when its condition holds whatever the others do: +5 same file,
\* +20 scope equal to an entry of the candidate scope paths, +12 once when the
\* scope ends with at least one non-empty entry, +15 and +10 for the two
\* qualifier rules when the identifier is qualified, +2 name equal to the
\* target name, +1 name ending with "::" and the target name, +3 for a
\* definition that is not a declaration.
C21_ScoreTable ==
    Scored =>
        LET def       == call.def
            qualified == Includes(call.word, Sep)
            qualifier == QualifierOf(call.word)
        IN  call.ret =
                Delta(def.file = call.currentFile, 5)
              + Delta(\E i \in 1..Len(call.candidateScopes) :
                          call.candidateScopes[i] = def.scope, 20)
              + Delta(SuffixEntries # {}, 12)
              + Delta(qualified /\ StartsWith(def.name, qualifier \o Sep), 15)
              + Delta(qualified /\ EndsWith(def.scope, qualifier), 10)
              + Delta(def.name = call.targetName, 2)
              + Delta(EndsWith(def.name, Sep \o call.targetName), 1)
              + Delta(def.isDefinition /\ ~def.isDeclaration, 3)

\* A candidate of the current file whose scope is one of the entries and ends
\* with two of them: 5 + 20 + 12 + 2 + 3.
C21_Witness ==
    /\ Scored
    /\ Cardinality(SuffixEntries) >= 2
    /\ call.def.file = call.currentFile
    /\ ~Includes(call.word, Sep)
    /\ call.ret = 42


Looked == call.fn = "lookupDefinition"

\* The row matches the identifier: its name is the identifier or ends with
\* "::" and the identifier.
RowMatches(r, identifier) ==
    r.name = identifier \/ EndsWith(r.name, Sep \o identifier)

\* C28: lookupDefinition returns exactly the rows that match the identifier,
\* every row of the current file before every row of another file, and among
\* rows of the same file status never a row with a longer recorded scope string
\* (the empty string being the shortest) before a row with a shorter one.
C28_FallbackRanking ==
    Looked =>
        /\ \A r \in Range(call.rows) \cup Range(call.ret) :
               Count(call.ret, r) =
                   IF RowMatches(r, call.identifier) THEN Count(call.rows, r) ELSE 0
        /\ \A i, j \in 1..Len(call.ret) :
               (i < j /\ call.ret[j].file = call.currentFile)
                   => call.ret[i].file = call.currentFile
        /\ \A i, j \in 1..Len(call.ret) :
               (/\ i < j
                /\ (call.ret[i].file = call.currentFile)
                       <=> (call.ret[j].file = call.currentFile))
                   => Len(call.ret[i].scope) <= Len(call.ret[j].scope)


\* The records of the sequence that are of file f, and those that are not.
OfFile(seq, f) == SelectSeq(seq, LAMBDA r : r.file = f)

NotOfFile(seq, f) == SelectSeq(seq, LAMBDA r : r.file # f)

Named(seq, n) == SelectSeq(seq, LAMBDA r : r.name = n)

\* C22: when an analysis of file f with the records S ends, every bucket is the
\* records it held of other files, in the order they had, followed by the
\* records of S of that name, in the order of S.
C22_BucketOrder ==
    [][ \A h \in DOMAIN handlers : AnalysisEnds(h) =>
            \A n \in DOMAIN symbolIndex \cup DOMAIN symbolIndex' :
                (IF MapHas(symbolIndex', n) THEN symbolIndex'[n] ELSE <<>>) =
                       NotOfFile(IF MapHas(symbolIndex, n) THEN symbolIndex[n]
                                 ELSE <<>>, handlers[h].file)
                       \o Named(symbols'[handlers[h].file], n)
      ]_vars

\* A file that was indexed was analysed again, and a bucket holds a record of
\* the other file followed by two different records of the analysed file.
C22_Witness ==
    /\ lastOp.op = "analyze" /\ lastOp.had
    /\ \E n \in DOMAIN symbolIndex : \E i, j, k \in 1..Len(symbolIndex[n]) :
           /\ i < j /\ j < k
           /\ symbolIndex[n][i].file # lastOp.file
           /\ symbolIndex[n][j].file = lastOp.file
           /\ symbolIndex[n][k].file = lastOp.file
           /\ symbolIndex[n][j] # symbolIndex[n][k]
           /\ OfFile(symbolIndex[n], lastOp.file) = Named(symbols[lastOp.file], n)


\* C23: no name of the name index maps to the empty sequence, and the names of
\* the index are the names of the records of the file table: a name whose last
\* record is removed is no key any more.
C23_NoEmptyBuckets ==
    /\ \A n \in DOMAIN symbolIndex : symbolIndex[n] # <<>>
    /\ DOMAIN symbolIndex = {r.name : r \in RecordsOfTable}

\* A file's records were removed, by a delete event or by a new analysis, other
\* records are indexed, and a name that was a record's name (the registry still
\* holds the scope it opened) is no key of the name index.
C23_Witness ==
    /\ lastOp.had
    /\ symbolIndex # EmptyMap
    /\ \E n \in DOMAIN globalScopes : ~MapHas(symbolIndex, n)


\* The scopes of the list ids and below them, each before its children, the
\* scopes of a list in the order of the list.
RECURSIVE PreOrder(_, _)
PreOrder(tree, ids) ==
    IF ids = <<>> THEN <<>>
    ELSE <<Head(ids)>> \o PreOrder(tree, tree.nodes[Head(ids)].children)
                       \o PreOrder(tree, Tail(ids))

\* The last scope of that name in the pre-order of the tree.
LastNamed(tree, n) ==
    LET order == PreOrder(tree, tree.roots)
        last  == CHOOSE k \in 1..Len(order) :
                     /\ tree.nodes[order[k]].name = n
                     /\ \A m \in (k + 1)..Len(order) : tree.nodes[order[m]].name # n
    IN  [tree |-> tree, idx |-> order[last]]

\* The scope manager right after buildScopeTree(syms, f) in the current state.
AfterBuild(f, syms) == SmBuildScopeTree(Sm, syms, f)

\* C24: right after buildScopeTree for a file, findScopeByName of every scope
\* name of the file's new tree is the last scope of that name in the pre-order
\* of the tree, whatever the registry held under the name before.
C24_LastVisitedWins ==
    AllIdle =>
        \A f \in Files : \A syms \in Programs(f) \cup {ProgTwice(f)} :
            \E sm \in {AfterBuild(f, syms)} :
                \A n \in ScopeNames(sm.fileScopes[f]) :
                    FindScopeByName(sm, n) = LastNamed(sm.fileScopes[f], n)

\* The registry holds a scope of b.cpp under N, and buildScopeTree of a.cpp with
\* namespace N inside namespace N puts the inner one, the second scope of the
\* pre-order, in its place.
C24_Witness ==
    /\ AllIdle
    /\ MapHas(fileScopes, "b.cpp")
    /\ MapHas(globalScopes, sN)
    /\ globalScopes[sN].tree = fileScopes["b.cpp"]
    /\ \E sm \in {AfterBuild("a.cpp", ProgTwice("a.cpp"))} :
           /\ FindScopeByName(sm, sN).tree = sm.fileScopes["a.cpp"]
           /\ FindScopeByName(sm, sN).idx = 2
           /\ sm.fileScopes["a.cpp"].nodes[2].parent = 1
           /\ sm.fileScopes["a.cpp"].nodes[1].name = sN


\* C25: a step that removes a file from the scope table removes from the
\* registry the name of every scope of the file's stored tree, at every depth
\* and whatever scope the registry held under the name.
C25_RemoveUnindexesEveryDepth ==
    [][ \A f \in DOMAIN fileScopes : ~MapHas(fileScopes', f) =>
            \A n \in ScopeNames(fileScopes[f]) :
                /\ ~MapHas(globalScopes', n)
                /\ FindScopeByName([fileScopes   |-> fileScopes',
                                    globalScopes |-> globalScopes'], n) = NoScope
      ]_vars

\* An indexed file was removed, and the other file, still indexed, has a scope
\* N and a scope C inside it whose names the registry does not hold any more.
C25_Witness ==
    /\ lastOp.op = "remove" /\ lastOp.had
    /\ ~MapHas(fileScopes, lastOp.file)
    /\ ~MapHas(globalScopes, sN)
    /\ ~MapHas(globalScopes, sC)
    /\ \E g \in DOMAIN fileScopes : \E i \in 1..Len(fileScopes[g].nodes) :
           /\ fileScopes[g].nodes[i].name = sC
           /\ fileScopes[g].nodes[i].parent # 0
           /\ fileScopes[g].nodes[fileScopes[g].nodes[i].parent].name = sN


\* C26: for every scope of a stored tree, getScopeHierarchy is the chain of
\* parents from a root down to the scope itself, and getScopePath is the name
\* of a root, and the path of the parent, "::" and the name of any other scope.
C26_HierarchyAndPath ==
    \A f \in DOMAIN fileScopes : \A k \in 1..Len(fileScopes[f].nodes) :
        \E tree \in {fileScopes[f]} : \E h \in {GetScopeHierarchy(fileScopes[f], k)} :
            /\ Len(h) >= 1
            /\ h[Len(h)] = k
            /\ tree.nodes[h[1]].parent = 0
            /\ \A i \in 1..(Len(h) - 1) : tree.nodes[h[i + 1]].parent = h[i]
            /\ GetScopePath(tree, k) =
                   IF tree.nodes[k].parent = 0 THEN tree.nodes[k].name
                   ELSE GetScopePath(tree, tree.nodes[k].parent)
                            \o Sep \o tree.nodes[k].name

\* A scope two levels below a root: its hierarchy has three scopes and its path
\* is N::N::C.
C26_Witness ==
    \E f \in DOMAIN fileScopes : \E k \in 1..Len(fileScopes[f].nodes) :
        /\ Len(GetScopeHierarchy(fileScopes[f], k)) = 3
        /\ GetScopePath(fileScopes[f], k) = sN \o Sep \o sN \o Sep \o sC


\* The sum of the values of a map of numbers.
RECURSIVE SumOf(_)
SumOf(map) ==
    IF DOMAIN map = {} THEN 0
    ELSE LET k == CHOOSE x \in DOMAIN map : TRUE
         IN  map[k] + SumOf([x \in DOMAIN map \ {k} |-> map[x]])

\* How many records of the lists of the file table are of kind k.
KindCount(k) ==
    SumOf([f \in DOMAIN symbols |->
              Cardinality({i \in 1..Len(symbols[f]) : symbols[f][i].kind = k})])

\* C27: getSymbolStatistics reports as total the number of records of the file
\* table, as byFile the length of the list of each indexed file and of no other,
\* as byKind the number of records of each kind that has records; and total is
\* the sum of byFile, the sum of byKind and the sum of the sizes of the buckets.
C27_SymbolStatistics ==
    \E stats \in {GetSymbolStatistics(Db)} :
        /\ stats.total = SumOf([f \in DOMAIN symbols |-> Len(symbols[f])])
        /\ DOMAIN stats.byFile = DOMAIN symbols
        /\ \A f \in DOMAIN symbols : stats.byFile[f] = Len(symbols[f])
        /\ DOMAIN stats.byKind = {r.kind : r \in RecordsOfTable}
        /\ \A k \in DOMAIN stats.byKind : stats.byKind[k] = KindCount(k)
        /\ stats.total = SumOf(stats.byFile)
        /\ stats.total = SumOf(stats.byKind)
        /\ stats.total = SumOf([n \in DOMAIN symbolIndex |-> Len(symbolIndex[n])])

\* Both files are indexed, one with two variables and a class, the other with a
\* namespace, a class and a function, and a bucket holds a record of each.
C27_Witness ==
    /\ DOMAIN symbols = Files
    /\ GetSymbolStatistics(Db).byFile = [f \in Files |-> 3]
    /\ GetSymbolStatistics(Db).total = 6
    /\ GetSymbolStatistics(Db).byKind["class"] = 2
    /\ GetSymbolStatistics(Db).byKind["variable"] = 2
    /\ \E n \in DOMAIN symbolIndex : \E r1, r2 \in Range(symbolIndex[n]) :
           r1.file # r2.file /\ r1.kind = "class"


\* n1::...::nj for the first j of the names, j >= 1.
RECURSIVE PathOfFirst(_, _)
PathOfFirst(names, j) ==
    IF j = 1 THEN names[1]
    ELSE PathOfFirst(names, j - 1) \o Sep \o names[j]

\* The candidate scope paths of a cursor on that line of the file.
CandidateScopesOfLine(f, line) ==
    IF FindScopeAtPosition(Sm, f, line) = 0
    THEN GetCandidateScopePaths(NoScope.tree, 0)
    ELSE GetCandidateScopePaths(fileScopes[f], FindScopeAtPosition(Sm, f, line))

\* C29: the candidate scope paths of a scope with hierarchy names n1..nk are
\* n1::..::nk, n1::..::n(k-1), ..., n1 and the empty path: k+1 entries, the first
\* the scope's path, each shorter than the one before, the last empty; without
\* a current scope they are the empty path alone.
C29_CandidateScopePaths ==
    /\ \A f \in DOMAIN fileScopes : \A idx \in 1..Len(fileScopes[f].nodes) :
           \E names \in {HierarchyNames(fileScopes[f], idx)} :
               \E paths \in {GetCandidateScopePaths(fileScopes[f], idx)} :
                   /\ Len(paths) = Len(names) + 1
                   /\ paths[1] = GetScopePath(fileScopes[f], idx)
                   /\ \A i \in 1..Len(names) :
                          /\ paths[i] = PathOfFirst(names, Len(names) - i + 1)
                          /\ Len(paths[i + 1]) < Len(paths[i])
                   /\ paths[Len(paths)] = Empty
    /\ \A f \in Files : \A line \in Lines :
           FindScopeAtPosition(Sm, f, line) = 0
               => CandidateScopesOfLine(f, line) = <<Empty>>

\* A cursor inside class C of namespace N gets N::C, N and the empty path, and
\* a cursor on another line of the file gets the empty path alone.
C29_Witness ==
    \E f \in DOMAIN fileScopes : \E l1, l2 \in Lines :
        /\ CandidateScopesOfLine(f, l1) = <<sNC, sN, Empty>>
        /\ FindScopeAtPosition(Sm, f, l2) = 0
        /\ CandidateScopesOfLine(f, l2) = <<Empty>>


\* The index after the analysis of f with S and then of g with T.
AnalyzedInTurn(f, S, g, T) == AnalyzeCommit(AnalyzeCommit(Index, f, S), g, T)

\* The two indexes have the same file table, the same scope table and, under
\* every name, the same set of records.
SameUpToBucketOrder(ix1, ix2) ==
    /\ ix1.db.symbols = ix2.db.symbols
    /\ ix1.sm.fileScopes = ix2.sm.fileScopes
    /\ DOMAIN ix1.db.symbolIndex = DOMAIN ix2.db.symbolIndex
    /\ \A n \in DOMAIN ix1.db.symbolIndex :
           Range(FindSymbolsByName(ix1.db, n)) = Range(FindSymbolsByName(ix2.db, n))

\* C30: from every index state, the analysis of one file and then of the other
\* gives the same file table, the same scope table and the same set of records
\* in every bucket as the two analyses in the other order.
C30_UpdatesCommute ==
    AllIdle =>
        \A S \in Programs("a.cpp") : \A T \in Programs("b.cpp") :
            SameUpToBucketOrder(AnalyzedInTurn("a.cpp", S, "b.cpp", T),
                                AnalyzedInTurn("b.cpp", T, "a.cpp", S))

\* Both files are indexed and share a name, and analysing both again with their
\* symbols gives, in the two orders, indexes that differ in the order of a
\* bucket only.
C30_Witness ==
    /\ AllIdle
    /\ DOMAIN symbols = Files
    /\ \E ab \in {AnalyzedInTurn("a.cpp", symbols["a.cpp"], "b.cpp", symbols["b.cpp"])} :
       \E ba \in {AnalyzedInTurn("b.cpp", symbols["b.cpp"], "a.cpp", symbols["a.cpp"])} :
           /\ SameUpToBucketOrder(ab, ba)
           /\ ab.db.symbolIndex # ba.db.symbolIndex
           /\ Index.db \in {ab.db, ba.db}


\* C31: in every built tree a child scope starts on the line its parent starts
\* on, and a scope is a child exactly when the scope created just before it
\* starts on the same line (that scope is then its parent): a scope-bearing
\* symbol on a later line than the open scopes becomes a root.
C31_NestingOnSameLineOnly ==
    \A f \in DOMAIN fileScopes : \A k \in 1..Len(fileScopes[f].nodes) :
        \E nodes \in {fileScopes[f].nodes} :
            /\ nodes[k].parent # 0
                   => nodes[k].startLine = nodes[nodes[k].parent].startLine
            /\ nodes[k].parent =
                   IF k > 1 /\ nodes[k - 1].startLine = nodes[k].startLine
                   THEN k - 1 ELSE 0

\* A scope has a child on its own line, and a scope that starts on a later
\* line, within the lines the child reaches in the end, is a root all the same.
C31_Witness ==
    \E i, j, k \in 1..Len(DirectTree.nodes) :
        /\ DirectTree.nodes[j].parent = i
        /\ DirectTree.nodes[k].startLine > DirectTree.nodes[j].startLine
        /\ DirectTree.nodes[k].startLine <= DirectTree.nodes[j].endLine
        /\ DirectTree.nodes[k].parent = 0


\* C32: findScopeAtPosition gives a scope for a line of a file exactly when
\* some scope of the file's stored tree, at any depth, covers the line.
C32_CoveredLineHasScope ==
    \A f \in DOMAIN fileScopes : \A line \in Lines :
        (FindScopeAtPosition(Sm, f, line) # 0)
            <=> \E k \in 1..Len(fileScopes[f].nodes) :
                    Covers(fileScopes[f].nodes[k], line)


\* The symbols lists of the first k scopes of the arena, one after the other.
RECURSIVE OwnedUpTo(_, _)
OwnedUpTo(nodes, k) ==
    IF k = 0 THEN <<>> ELSE OwnedUpTo(nodes, k - 1) \o nodes[k].symbols

\* The records of the line-sorted list from its first scope-bearing one on.
FromFirstScope(sorted) ==
    IF \E p \in 1..Len(sorted) : IsScopeSymbol(sorted[p])
    THEN SubSeq(sorted, OpenedAt(sorted, 1), Len(sorted))
    ELSE <<>>

\* C33: the symbols lists of the scopes of a built tree, taken in the order the
\* scopes were created, make up the line-sorted record list from its first
\* scope-bearing record on, each record once and none of the records before;
\* every list begins with the scope-bearing record that opened the scope and
\* holds no other scope-bearing record.
C33_OwnershipPartition ==
    \A f \in DOMAIN fileScopes :
        \E nodes \in {fileScopes[f].nodes} : \E sorted \in {SortByLine(symbols[f])} :
            /\ OwnedUpTo(nodes, Len(nodes)) = FromFirstScope(sorted)
            /\ \A k \in 1..Len(nodes) :
                   /\ nodes[k].symbols # <<>>
                   /\ nodes[k].symbols[1] = sorted[OpenedAt(sorted, k)]
                   /\ \A i \in 2..Len(nodes[k].symbols) :
                          ~IsScopeSymbol(nodes[k].symbols[i])

\* The list has a record before its first scope-bearing one, which no scope
\* owns, two scopes, and a scope that owns a record besides its own.
C33_Witness ==
    /\ Len(DirectTree.nodes) >= 2
    /\ \E sorted \in {SortByLine(DirectList)} :
           /\ ~IsScopeSymbol(sorted[1])
           /\ \A k \in 1..Len(DirectTree.nodes) :
                  sorted[1] \notin Range(DirectTree.nodes[k].symbols)
    /\ \E k \in 1..Len(DirectTree.nodes) : Len(DirectTree.nodes[k].symbols) >= 2


\* How often scope k stands in the children lists of the scopes of the set.
RECURSIVE ChildPlaces(_, _, _)
ChildPlaces(nodes, parents, k) ==
    IF parents = {} THEN 0
    ELSE LET p == CHOOSE x \in parents : TRUE
         IN  Count(nodes[p].children, k) + ChildPlaces(nodes, parents \ {p}, k)

\* The scopes of the list start on lines that never go down along the list.
InStartLineOrder(nodes, ids) ==
    \A i, j \in 1..Len(ids) :
        i < j => nodes[ids[i]].startLine <= nodes[ids[j]].startLine

\* C34: a built tree is a well-formed forest.  It has as many scopes as the
\* input has scope-bearing records; a scope without parent stands once in the
\* root list and in no children list, a scope with a parent stands once in the
\* children list of that parent and nowhere else; roots and siblings are in
\* non-decreasing start line order; and every parent was created before its
\* child, so the parent links have no cycle and getScopeHierarchy ends.
C34_WellFormedForest ==
    \A f \in DOMAIN fileScopes :
        \E nodes \in {fileScopes[f].nodes} : \E roots \in {fileScopes[f].roots} :
            /\ Len(nodes) = Cardinality({i \in 1..Len(symbols[f]) :
                                             symbols[f][i].kind \in ScopeKinds})
            /\ \A k \in 1..Len(nodes) :
                   /\ nodes[k].parent \in 0..(k - 1)
                   /\ Count(roots, k) = IF nodes[k].parent = 0 THEN 1 ELSE 0
                   /\ ChildPlaces(nodes, 1..Len(nodes), k) =
                          IF nodes[k].parent = 0 THEN 0 ELSE 1
                   /\ nodes[k].parent # 0
                          => Count(nodes[nodes[k].parent].children, k) = 1
                   /\ InStartLineOrder(nodes, nodes[k].children)
                   /\ Len(GetScopeHierarchy(fileScopes[f], k)) <= k
            /\ InStartLineOrder(nodes, roots)

\* A list given out of line order gives two roots on different lines, the
\* first of them with a child, and holds a record that opens no scope.
C34_Witness ==
    /\ \E i, j \in 1..Len(DirectList) :
           i < j /\ DirectList[i].line > DirectList[j].line
    /\ \E i \in 1..Len(DirectList) : ~IsScopeSymbol(DirectList[i])
    /\ Len(DirectTree.roots) = 2
    /\ DirectTree.nodes[DirectTree.roots[1]].startLine
           < DirectTree.nodes[DirectTree.roots[2]].startLine
    /\ DirectTree.nodes[DirectTree.roots[1]].children # <<>>


\* C35: every scope of every stored tree starts no later than it ends.
C35_StartNotAfterEnd ==
    \A f \in DOMAIN fileScopes : \A k \in 1..Len(fileScopes[f].nodes) :
        fileScopes[f].nodes[k].startLine <= fileScopes[f].nodes[k].endLine

\* The file was analysed from a list that is not in line order; one scope owns
\* a record of another kind on its start line only and ends there, another owns
\* one on a later line and ends on that line.
C35_Witness ==
    /\ lastOp.op = "analyze"
    /\ \E i, j \in 1..Len(DirectList) :
           i < j /\ DirectList[i].line > DirectList[j].line
    /\ \E k \in 1..Len(DirectTree.nodes) :
           /\ DirectTree.nodes[k].endLine = DirectTree.nodes[k].startLine
           /\ \E s \in Range(DirectTree.nodes[k].symbols) :
                  s.kind # DirectTree.nodes[k].type
    /\ \E k \in 1..Len(DirectTree.nodes) :
           /\ DirectTree.nodes[k].endLine > DirectTree.nodes[k].startLine
           /\ \E s \in Range(DirectTree.nodes[k].symbols) :
                  s.line = DirectTree.nodes[k].endLine


\* C36: the files with an entry in the symbol table are the files with an entry
\* in the scope table, a file analysed with no symbols having an empty entry in
\* both, and every record a scope of a file owns is in the file's symbol list.
C36_FileTablesAgree ==
    /\ DOMAIN symbols = DOMAIN fileScopes
    /\ \A f \in DOMAIN symbols :
           /\ symbols[f] = <<>> =>
                  fileScopes[f] = [nodes |-> <<>>, roots |-> <<>>]
           /\ \A k \in 1..Len(fileScopes[f].nodes) :
                  Range(fileScopes[f].nodes[k].symbols) \subseteq Range(symbols[f])

\* After a deletion of an indexed file and a later analysis, one file has an
\* empty entry in both tables and the other has scopes that own records.
C36_Witness ==
    /\ AllIdle
    /\ lastOp.op = "analyze" /\ ~lastOp.had
    /\ \E f, g \in DOMAIN symbols :
           /\ symbols[f] = <<>> /\ fileScopes[f].roots = <<>>
           /\ symbols[g] # <<>>
           /\ \E k \in 1..Len(fileScopes[g].nodes) :
                  Len(fileScopes[g].nodes[k].symbols) >= 2
    /\ \E n \in DOMAIN globalScopes :
           \A f \in DOMAIN fileScopes : n \notin ScopeNames(fileScopes[f])


\* The bucket of the name in the index (the empty sequence if there is none).
BucketOf(index, n) == IF MapHas(index, n) THEN index[n] ELSE <<>>

\* C37: a step that updates or removes a file leaves the entry of every other
\* file in the symbol table as it was and keeps, in every bucket, the records
\* of the other files; the removal of a file that is not indexed changes
\* neither the table nor the name index.
C37_OtherFilesUntouched ==
    [][ /\ \A g \in Files \ {lastOp'.file} :
               /\ MapHas(symbols', g) <=> MapHas(symbols, g)
               /\ MapHas(symbols, g) => symbols'[g] = symbols[g]
        /\ \A n \in DOMAIN symbolIndex \cup DOMAIN symbolIndex' :
               NotOfFile(BucketOf(symbolIndex', n), lastOp'.file)
                   = NotOfFile(BucketOf(symbolIndex, n), lastOp'.file)
        /\ (lastOp'.op = "remove" /\ ~lastOp'.had)
               => UNCHANGED <<symbols, symbolIndex>>
      ]_vars

\* A file that is not indexed was removed while the other file is indexed and
\* has records in the name index.
C37_Witness ==
    /\ lastOp.op = "remove" /\ ~lastOp.had
    /\ \E g \in DOMAIN symbols : g # lastOp.file /\ symbols[g] # <<>>
    /\ \E r \in RecordsOfIndex : r.file # lastOp.file


\* The roots of the stored trees that are of the type.
RootsOfType(type) ==
    SumOf([f \in DOMAIN fileScopes |->
              Cardinality({i \in 1..Len(fileScopes[f].roots) :
                  fileScopes[f].nodes[fileScopes[f].roots[i]].type = type})])

\* C38: getScopeStatistics reports as total the number of root scopes of all
\* indexed files, as byFile the number of roots of each indexed file, as byType
\* the number of roots of each type that has a root; scopes below a root are
\* not counted; and total is the sum of byFile and the sum of byType.
C38_ScopeStatistics ==
    \E stats \in {GetScopeStatistics(Sm)} :
        /\ stats.total = SumOf([f \in DOMAIN fileScopes |-> Len(fileScopes[f].roots)])
        /\ DOMAIN stats.byFile = DOMAIN fileScopes
        /\ \A f \in DOMAIN fileScopes : stats.byFile[f] = Len(fileScopes[f].roots)
        /\ DOMAIN stats.byType =
               UNION { {fileScopes[f].nodes[fileScopes[f].roots[i]].type :
                            i \in 1..Len(fileScopes[f].roots)} :
                       f \in DOMAIN fileScopes }
        /\ \A type \in DOMAIN stats.byType : stats.byType[type] = RootsOfType(type)
        /\ stats.total = SumOf(stats.byFile)
        /\ stats.total = SumOf(stats.byType)

\* Both files are indexed, one with a class nested in a namespace and a
\* function, the other with a class: three roots of four scopes, and the nested
\* class is in no count.
C38_Witness ==
    /\ DOMAIN fileScopes = Files
    /\ \E f \in Files : \E k \in 1..Len(fileScopes[f].nodes) :
           fileScopes[f].nodes[k].parent # 0 /\ fileScopes[f].nodes[k].type = "class"
    /\ GetScopeStatistics(Sm).total = 3
    /\ GetScopeStatistics(Sm).byType["class"] = 1
    /\ GetScopeStatistics(Sm).byType["namespace"] = 1
    /\ \E f \in Files : GetScopeStatistics(Sm).byFile[f] = 2

=============================================================================
